---- MODULE Spec2Model ----
(***************************************************************************)
(* Model of the authentication and authorization core of garage-barbershop *)
(* (Telegram assertion check, JWT issue/parse, refresh-token store in      *)
(* Redis, RBAC role assignment, HTTP/Gin handlers and auth middleware).    *)
(*                                                                         *)
(* One module, several specifications over the same variables:             *)
(*   Spec        the login / refresh / logout handlers run by concurrent   *)
(*               request workers against the Redis refresh-token store     *)
(*   SpecRBAC    role assignment run by concurrent workers against the     *)
(*               roles / user_roles tables                                 *)
(*   SpecJWT     ParseJWT and the two auth middlewares applied to issued   *)
(*               and forged tokens                                         *)
(*   SpecVerify  ValidateTelegramAuth applied to bounded payloads          *)
(*   SpecDirect  the direct (email/password) registration and login        *)
(*               handlers                                                  *)
(*   SpecStore   the four refresh-token store methods called directly by   *)
(*               concurrent callers                                        *)
(*   SpecIssue   token issuance with the clock advancing between the       *)
(*               readings of time.Now()                                    *)
(*   SpecAccounts   external login beside UserHandler.CreateUser on a      *)
(*               seeded database that holds one registered client          *)
(*   SpecBootstrap  CreateInitialRoles between CreateRole, UpdateRole and  *)
(*               DeleteRole calls                                          *)
(*   SpecHasRoles   HasAnyRole / HasAllRoles applied to bounded tables     *)
(*               and lists of names                                        *)
(*   SpecLookups    role assignment, role deletion and user deletion       *)
(*               beside the GetUserRoles / GetUsersWithRole lookups        *)
(*   SpecFirstLogins  external logins and direct registrations on a        *)
(*               database without users                                    *)
(*   SpecRegister   RegisterBarber / RegisterClient beside DeleteRole      *)
(***************************************************************************)
EXTENDS Integers, Sequences, FiniteSets, TLC

(***************************************************************************)
(* Bounds of the model (not program constants).                            *)
(***************************************************************************)
NumProcs == 2
MaxNs == 1
MaxSecTicks == 1
MaxReqs == 4

(***************************************************************************)
(* Program constants.                                                      *)
(***************************************************************************)
AccessLifetime == 900
RefreshLifetime == 604800
RefreshTTL == 604800
FreshnessWindow == 300
StartUnix == 1700000000

JwtSecret == "jwt_secret"
AttackerKey == "attacker_key"
HandlerBotToken == "your_bot_token_here"

Procs == 1..NumProcs

VARIABLES
    now,        \* wall clock read by time.Now(): [sec, ns]
    secTicks,   \* number of whole-second clock advances so far (bounds the clock)
    rdb,        \* TRUE iff authService.rdb is a Redis client (not nil)
    redis,      \* Redis keys "refresh_token:<id>": user id -> [val, exp] or NoEntry
    users,      \* table users: sequence of rows
    roles,      \* table roles: sequence of rows
    userRoles,  \* table user_roles: sequence of rows
    pc,         \* per request worker: position in its handler
    loc,        \* per request worker: the handler's local variables and response
    known,      \* tokens returned to clients in responses
    reqs,      \* number of requests received so far
    hist,       \* history of what was issued, superseded, replaced, revoked
    probe       \* input and result of the last pure-function application

vars == <<now, secTicks, rdb, redis, users, roles, userRoles, pc, loc, known, reqs, hist, probe>>

(***************************************************************************)
(* Tagged claim values: a JWT claim is a JSON number, a JSON string or     *)
(* absent.                                                                 *)
(***************************************************************************)
Num(n) == <<"num", n>>
Str(s) == <<"str", s>>
Absent == <<"absent", 0>>

IsNum(v) == v[1] = "num"
IsStr(v) == v[1] = "str"


(***************************************************************************)
(* Clock.  time.Now().Unix() is now.sec; time.Now().UnixNano() is the pair *)
(* <<now.sec, now.ns>> (one reading of the nanosecond clock).  The clock   *)
(* never runs backwards here; between two readings it may stand still.     *)
(***************************************************************************)
Unix(t) == t.sec
UnixNano(t) == <<t.sec, t.ns>>


(***************************************************************************)
(* JSON Web Tokens.  A token string is determined by its header algorithm, *)
(* its claims and its signature; a signature is symbolic: the algorithm    *)
(* and key that made it and the claims it was made over (HMAC is modelled  *)
(* as collision free).                                                     *)
(***************************************************************************)
ClaimNames == {"user_id", "telegram_id", "role", "type", "exp", "iat", "jti"}
NoClaims == [k \in ClaimNames |-> Absent]

HMACFamily == {"HS256", "HS384", "HS512"}

SignWith(alg, key, claims) == [alg |-> alg, key |-> key, over |-> claims]
NoSig == [alg |-> "", key |-> "", over |-> NoClaims]
NoTok == [alg |-> "", claims |-> NoClaims, sig |-> NoSig]

\* token.SignedString([]byte(secret)) of jwt.NewWithClaims(jwt.SigningMethodHS256, claims)
SignedString(claims, secret) ==
    [alg |-> "HS256", claims |-> claims, sig |-> SignWith("HS256", secret, claims)]

\* generateJTI: "%d_%d" of time.Now().UnixNano() and time.Now().Unix(), two
\* readings of the clock
generateJTI(tn, tu) == Str(<<UnixNano(tn), Unix(tu)>>)

\* the four readings of time.Now() of one Generate call, in the order the
\* call makes them (exp, iat, then the two of generateJTI), when the clock
\* stands still at t for the whole call
Still(t) == [exp |-> t, iat |-> t, nano |-> t, unix |-> t]

\* GenerateAccessToken(user) with r the readings of time.Now() it makes
GenerateAccessToken(user, r) ==
    SignedString([user_id |-> Num(user.id),
                  telegram_id |-> Num(user.telegramID),
                  role |-> Str(user.role),
                  type |-> Str("access"),
                  exp |-> Num(Unix(r.exp) + AccessLifetime),
                  iat |-> Num(Unix(r.iat)),
                  jti |-> generateJTI(r.nano, r.unix)], JwtSecret)

\* GenerateRefreshToken(user) with r the readings of time.Now() it makes (no
\* role claim)
GenerateRefreshToken(user, r) ==
    SignedString([user_id |-> Num(user.id),
                  telegram_id |-> Num(user.telegramID),
                  role |-> Absent,
                  type |-> Str("refresh"),
                  exp |-> Num(Unix(r.exp) + RefreshLifetime),
                  iat |-> Num(Unix(r.iat)),
                  jti |-> generateJTI(r.nano, r.unix)], JwtSecret)

\* The keyfunc of ParseJWT: only *jwt.SigningMethodHMAC is let through.
KeyfuncAccepts(alg) == alg \in HMACFamily

\* jwt.Parse: method.Verify(signingString, signature, key) with key a []byte.
\* The none and RSA/ECDSA methods refuse a []byte key; an HMAC method
\* recomputes the MAC over header and claims and compares.
SignatureVerifies(tok, key) ==
    /\ tok.alg \in HMACFamily
    /\ tok.sig = SignWith(tok.alg, key, tok.claims)

\* jwt/v5 validator: exp, when present, must be a number and after now
\* (now.Before(exp), nanosecond precision; exp is whole seconds).
LibraryClaimsValid(claims, t) ==
    \/ claims["exp"] = Absent
    \/ /\ IsNum(claims["exp"])
       /\ Unix(t) < claims["exp"][2]

\* the error of jwt.Parse, returned by ParseJWT as it is: err tells
\* jwt.ErrTokenExpired ("expired") from every other error ("invalid")
ParseError == [ok |-> FALSE, err |-> "invalid", UserID |-> 0, TelegramID |-> 0, Role |-> "",
               Type |-> "", Exp |-> 0, Iat |-> 0, Jti |-> <<>>]
ParseExpired == [ParseError EXCEPT !.err = "expired"]

\* claims["k"].(float64) and claims["k"].(string) with the error dropped
NumOrZero(v) == IF IsNum(v) THEN v[2] ELSE 0
StrOrEmpty(v) == IF IsStr(v) THEN v[2] ELSE ""
JtiOrEmpty(v) == IF IsStr(v) THEN v[2] ELSE <<>>

\* ParseJWT that reads the claims without verifying the signature
ParseJWT_unverified(tok, t) ==
    IF ~LibraryClaimsValid(tok.claims, t)
         THEN (IF IsNum(tok.claims["exp"]) THEN ParseExpired ELSE ParseError)
    ELSE [ok |-> TRUE, err |-> "",
          UserID |-> NumOrZero(tok.claims["user_id"]),
          TelegramID |-> NumOrZero(tok.claims["telegram_id"]),
          Role |-> StrOrEmpty(tok.claims["role"]),
          Type |-> StrOrEmpty(tok.claims["type"]),
          Exp |-> NumOrZero(tok.claims["exp"]),
          Iat |-> NumOrZero(tok.claims["iat"]),
          Jti |-> JtiOrEmpty(tok.claims["jti"])]

\* ParseJWT(tokenString) at clock reading t: TokenClaims or an error
ParseJWT(tok, t) ==
    IF ~KeyfuncAccepts(tok.alg) THEN ParseError
    ELSE IF ~SignatureVerifies(tok, JwtSecret) THEN ParseError
    ELSE IF ~LibraryClaimsValid(tok.claims, t)
         THEN (IF IsNum(tok.claims["exp"]) THEN ParseExpired ELSE ParseError)
    ELSE [ok |-> TRUE, err |-> "",
          UserID |-> NumOrZero(tok.claims["user_id"]),
          TelegramID |-> NumOrZero(tok.claims["telegram_id"]),
          Role |-> StrOrEmpty(tok.claims["role"]),
          Type |-> StrOrEmpty(tok.claims["type"]),
          Exp |-> NumOrZero(tok.claims["exp"]),
          Iat |-> NumOrZero(tok.claims["iat"]),
          Jti |-> JtiOrEmpty(tok.claims["jti"])]

\* TokenClaims methods
IsExpired(tc, t) == Unix(t) > tc.Exp
IsAccessToken(tc) == tc.Type = "access"

\* IsRefreshToken that lets every kind through
IsRefreshToken_anyKind(tc) == TRUE

IsRefreshToken(tc) == tc.Type = "refresh"

(***************************************************************************)
(* Refresh-token store: the Redis commands the service issues.  A key set  *)
(* with a TTL is gone once the TTL has run out.                            *)
(***************************************************************************)
NoEntry == [val |-> NoTok, exp |-> 0]

RedisGet(store, uid, t) ==
    IF store[uid] # NoEntry /\ Unix(t) < store[uid].exp
    THEN [found |-> TRUE, val |-> store[uid].val]
    ELSE [found |-> FALSE, val |-> NoTok]

RedisSet(store, uid, val, ttl, t) ==
    [store EXCEPT ![uid] = [val |-> val, exp |-> Unix(t) + ttl]]

RedisDel(store, uid) == [store EXCEPT ![uid] = NoEntry]

\* StoreRefreshToken: the store after the call (nil client: nothing happens)
StoreRefreshToken(store, uid, tok, t) ==
    IF ~rdb THEN store ELSE RedisSet(store, uid, tok, RefreshTTL, t)

\* IsRefreshTokenValid without the test for a nil client
IsRefreshTokenValid_noNilCheck(store, uid, tok, t) ==
    LET g == RedisGet(store, uid, t) IN g.found /\ g.val = tok

\* IsRefreshTokenValid that asks only whether a value is stored
IsRefreshTokenValid_anyStored(store, uid, tok, t) ==
    IF ~rdb THEN TRUE ELSE RedisGet(store, uid, t).found

\* IsRefreshTokenValid
IsRefreshTokenValid(store, uid, tok, t) ==
    IF ~rdb THEN TRUE
    ELSE LET g == RedisGet(store, uid, t) IN g.found /\ g.val = tok

\* UpdateRefreshToken whose comparison is dropped
UpdateRefreshTokenCheck_anyStored(store, uid, oldTok, t) ==
    IF ~rdb THEN TRUE ELSE RedisGet(store, uid, t).found

\* UpdateRefreshToken, first half: the GET and the comparison with oldToken
UpdateRefreshTokenCheck(store, uid, oldTok, t) ==
    IF ~rdb THEN TRUE
    ELSE LET g == RedisGet(store, uid, t) IN g.found /\ g.val = oldTok

\* UpdateRefreshToken, second half: the SET of newToken
UpdateRefreshTokenSet(store, uid, newTok, t) ==
    IF ~rdb THEN store ELSE RedisSet(store, uid, newTok, RefreshTTL, t)

\* RevokeRefreshToken that deletes every user's key
RevokeRefreshToken_everyKey(store, uid) ==
    IF ~rdb THEN store ELSE [u \in DOMAIN store |-> NoEntry]

\* RevokeRefreshToken
RevokeRefreshToken(store, uid) ==
    IF ~rdb THEN store ELSE RedisDel(store, uid)


(***************************************************************************)
(* int64 arithmetic, at its width.  An int64 is four 16-bit limbs, least   *)
(* significant first, in two's complement; Go's subtraction wraps.         *)
(***************************************************************************)
LimbBase == 2^16
SignLimb == 2^15

Zero64 == <<0, 0, 0, 0>>
MinInt64 == <<0, 0, 0, 32768>>

\* a natural number below 2^31 as an int64
FromNat(n) == <<n % LimbBase, (n \div LimbBase) % LimbBase, 0, 0>>

\* a - b modulo 2^64
Sub64(a, b) ==
    LET d1 == a[1] - b[1]
        w1 == IF d1 < 0 THEN 1 ELSE 0
        d2 == a[2] - b[2] - w1
        w2 == IF d2 < 0 THEN 1 ELSE 0
        d3 == a[3] - b[3] - w2
        w3 == IF d3 < 0 THEN 1 ELSE 0
        d4 == a[4] - b[4] - w3
    IN <<d1 % LimbBase, d2 % LimbBase, d3 % LimbBase, d4 % LimbBase>>

Neg64(a) == Sub64(Zero64, a)
IsNeg64(a) == a[4] >= SignLimb

\* a > k as signed int64, for a constant 0 <= k < 2^16
GreaterThanSmall(a, k) ==
    /\ ~IsNeg64(a)
    /\ (a[4] > 0 \/ a[3] > 0 \/ a[2] > 0 \/ a[1] > k)

\* a < b as signed int64 (by sign, then by magnitude from the top limb)
Less64(a, b) ==
    IF IsNeg64(a) # IsNeg64(b) THEN IsNeg64(a)
    ELSE \E i \in 1..4 : /\ a[i] < b[i]
                        /\ \A j \in (i+1)..4 : a[j] = b[j]

\* unsigned division of the limbs by 10: <<quotient, remainder>>
DivMod10(a) ==
    LET n4 == a[4]
        n3 == (n4 % 10) * LimbBase + a[3]
        n2 == (n3 % 10) * LimbBase + a[2]
        n1 == (n2 % 10) * LimbBase + a[1]
    IN <<(<<n1 \div 10, n2 \div 10, n3 \div 10, n4 \div 10>>), n1 % 10>>

Digits == <<"0", "1", "2", "3", "4", "5", "6", "7", "8", "9">>

RECURSIVE FormatUnsigned(_)
FormatUnsigned(a) ==
    LET qr == DivMod10(a)
    IN IF qr[1] = Zero64 THEN Digits[qr[2] + 1]
       ELSE FormatUnsigned(qr[1]) \o Digits[qr[2] + 1]

\* fmt's %d of an int64
FormatInt(a) == IF IsNeg64(a) THEN "-" \o FormatUnsigned(Neg64(a)) ELSE FormatUnsigned(a)

(***************************************************************************)
(* Credential verifier.  HMAC-SHA256 and hex encoding are symbolic and     *)
(* collision free: the MAC is the pair of key and message.                 *)
(***************************************************************************)
HmacSha256(key, msg) == <<key, msg>>
HexEncodeToString(mac) == <<"hex", mac>>

\* a data-check string with the id line ahead of the first_name line
DataCheckString_unsorted(authData) ==
    "auth_date=" \o FormatInt(authData.auth_date)
    \o "\nid=" \o FormatInt(authData.id)
    \o "\nfirst_name=" \o authData.first_name
    \o "\nlast_name=" \o authData.last_name
    \o "\nusername=" \o authData.username

\* the data-check string built by fmt.Sprintf in ValidateTelegramAuth
DataCheckString(authData) ==
    "auth_date=" \o FormatInt(authData.auth_date)
    \o "\nfirst_name=" \o authData.first_name
    \o "\nid=" \o FormatInt(authData.id)
    \o "\nlast_name=" \o authData.last_name
    \o "\nusername=" \o authData.username

\* time.Now().Unix()-authData.AuthDate > 300, in int64
TooOld(authData, t) ==
    GreaterThanSmall(Sub64(FromNat(Unix(t)), authData.auth_date), FreshnessWindow)

\* ValidateTelegramAuth that checks the freshness only
ValidateTelegramAuth_hashIgnored(authData, botToken, t) == ~TooOld(authData, t)

\* ValidateTelegramAuth(authData, botToken) at clock reading t
ValidateTelegramAuth(authData, botToken, t) ==
    IF TooOld(authData, t) THEN FALSE
    ELSE HexEncodeToString(HmacSha256(botToken, DataCheckString(authData))) = authData.hash


(***************************************************************************)
(* Table users (models.User) and the user repository.  telegram_id and     *)
(* email each carry a unique index; the index covers every row, soft       *)
(* deleted ones and zero values ("" and 0) included.                       *)
(***************************************************************************)
NoUser == [id |-> 0, telegramID |-> Zero64, username |-> "", firstName |-> "",
           lastName |-> "", role |-> "", isActive |-> FALSE, email |-> "",
           passwordHash |-> <<>>, authMethod |-> "", deleted |-> FALSE]

\* userRepository.GetByTelegramID: First, by primary key, of the live rows
GetByTelegramID(tbl, tid) ==
    LET hits == {i \in 1..Len(tbl) : ~tbl[i].deleted /\ tbl[i].telegramID = tid}
    IN IF hits = {} THEN NoUser
       ELSE tbl[CHOOSE i \in hits : \A j \in hits : i <= j]

\* a lookup by email that finds nobody
GetByEmail_none(tbl, email) == NoUser

\* userRepository.GetByEmail
GetByEmail(tbl, email) ==
    LET hits == {i \in 1..Len(tbl) : ~tbl[i].deleted /\ tbl[i].email = email}
    IN IF hits = {} THEN NoUser
       ELSE tbl[CHOOSE i \in hits : \A j \in hits : i <= j]

\* userRepository.GetByID
GetByID(tbl, id) ==
    IF id \in 1..Len(tbl) /\ ~tbl[id].deleted THEN tbl[id] ELSE NoUser

\* a table without unique indexes
UniqueViolation_none(tbl, u) == FALSE

\* would INSERT of row u break a unique index of the table
UniqueViolation(tbl, u) ==
    \E i \in 1..Len(tbl) : tbl[i].telegramID = u.telegramID \/ tbl[i].email = u.email

\* userRepository.Create: the table after a successful INSERT (id from the sequence)
CreateUser(tbl, u) == Append(tbl, [u EXCEPT !.id = Len(tbl) + 1])

\* an Update that INSERTs instead
UpdateUser_insert(tbl, u) == Append(tbl, u)

\* userRepository.Update: db.Save of the row with u's primary key
UpdateUser(tbl, u) == [tbl EXCEPT ![u.id] = u]

(***************************************************************************)
(* Request workers.  Each worker handles one request at a time; a handler  *)
(* is cut at its calls to the database and to Redis.                       *)
(***************************************************************************)
NoClaimsParsed == ParseError

IdleLoc == [op |-> "none", tok |-> NoTok, uid |-> 0, tc |-> NoClaimsParsed, user |-> NoUser,
            acc |-> NoTok, ref |-> NoTok, status |-> 0, kind |-> "", rot |-> "none",
            stale |-> FALSE, afterLogout |-> FALSE, with |-> {}]

TelegramIDs == {FromNat(12345)}

\* the assertion a client sends: signed with key, or carrying a junk hash
Assertion(id, key, t) ==
    LET d == [id |-> id, username |-> "testuser", first_name |-> "John", last_name |-> "Doe",
              auth_date |-> FromNat(Unix(t)), hash |-> <<"hex", <<"", "test_hash">>>>]
    IN IF key = "" THEN d
       ELSE [d EXCEPT !.hash = HexEncodeToString(HmacSha256(key, DataCheckString(d)))]

\* the response is written; the handler's locals go out of scope
Finish(p, l) == /\ pc' = [pc EXCEPT ![p] = "idle"]
                /\ loc' = [loc EXCEPT ![p] = [l EXCEPT !.tok = NoTok, !.uid = 0,
                                                        !.tc = NoClaimsParsed, !.user = NoUser,
                                                        !.acc = NoTok, !.ref = NoTok]]

\* AuthHandler.TelegramAuth up to the lookup in AuthenticateUser
TelegramAuthStart(p, authData) ==
    /\ pc[p] = "idle"
    /\ reqs < MaxReqs
    /\ reqs' = reqs + 1
    /\ LET l == [IdleLoc EXCEPT !.op = "telegram"]
           found == GetByTelegramID(users, authData.id)
       IN IF ~ValidateTelegramAuth(authData, HandlerBotToken, now)
          THEN Finish(p, [l EXCEPT !.status = 401, !.kind = "AuthInvalid"])
          ELSE IF found # NoUser
          THEN /\ pc' = [pc EXCEPT ![p] = "tg_update"]
               /\ loc' = [loc EXCEPT ![p] = [l EXCEPT !.user =
                            [found EXCEPT !.username = authData.username,
                                          !.firstName = authData.first_name,
                                          !.lastName = authData.last_name,
                                          !.isActive = TRUE]]]
          ELSE /\ pc' = [pc EXCEPT ![p] = "tg_create"]
               /\ loc' = [loc EXCEPT ![p] = [l EXCEPT !.user =
                            [NoUser EXCEPT !.telegramID = authData.id,
                                           !.username = authData.username,
                                           !.firstName = authData.first_name,
                                           !.lastName = authData.last_name,
                                           !.role = "client",
                                           !.isActive = TRUE]]]
    /\ UNCHANGED <<now, secTicks, rdb, redis, users, roles, userRoles, known, hist, probe>>

\* AuthenticateUser: userRepo.Update of the found user
TelegramAuthUpdate(p) ==
    /\ pc[p] = "tg_update"
    /\ users' = UpdateUser(users, loc[p].user)
    /\ pc' = [pc EXCEPT ![p] = "tg_store"]
    /\ UNCHANGED <<now, secTicks, rdb, redis, roles, userRoles, loc, known, reqs, hist, probe>>

\* AuthenticateUser: userRepo.Create of the new user
TelegramAuthCreate(p) ==
    /\ pc[p] = "tg_create"
    /\ IF UniqueViolation(users, loc[p].user)
       THEN /\ Finish(p, [loc[p] EXCEPT !.status = 500, !.kind = "Internal"])
            /\ UNCHANGED users
       ELSE /\ users' = CreateUser(users, loc[p].user)
            /\ pc' = [pc EXCEPT ![p] = "tg_store"]
            /\ loc' = [loc EXCEPT ![p].user.id = Len(users) + 1]
    /\ UNCHANGED <<now, secTicks, rdb, redis, roles, userRoles, known, reqs, hist, probe>>

\* TelegramAuth: GenerateAccessToken, GenerateRefreshToken, StoreRefreshToken, 200
TelegramAuthStore(p) ==
    /\ pc[p] = "tg_store"
    /\ LET u == loc[p].user
           acc == GenerateAccessToken(u, Still(now))
           ref == GenerateRefreshToken(u, Still(now))
       IN /\ redis' = StoreRefreshToken(redis, u.id, ref, now)
          /\ Finish(p, [loc[p] EXCEPT !.uid = u.id, !.acc = acc, !.ref = ref,
                                      !.status = 200, !.kind = "OK"])
          /\ known' = known \cup {acc, ref}
          /\ hist' = [hist EXCEPT !.issuedTo[u.id] = @ \cup {ref},
                                  !.revoked[u.id] = {},
                                  !.latest[u.id] = ref,
                                  !.replaced[u.id] = @ \cup ({hist.latest[u.id]} \ {NoTok})]
    /\ UNCHANGED <<now, secTicks, rdb, users, roles, userRoles, reqs, probe>>


\* AuthHandler.RefreshToken up to and including IsRefreshTokenValid
RefreshStart(p, tok) ==
    /\ pc[p] = "idle"
    /\ reqs < MaxReqs
    /\ reqs' = reqs + 1
    /\ LET tc == ParseJWT(tok, now)
           l == [IdleLoc EXCEPT !.op = "refresh", !.tok = tok, !.tc = tc, !.uid = tc.UserID,
                                !.stale = (tok \in hist.superseded),
                                !.afterLogout = (\E u \in DOMAIN hist.revoked : tok \in hist.revoked[u])]
       IN IF ~tc.ok
          THEN Finish(p, [l EXCEPT !.status = 401, !.kind = "InvalidToken"])
          ELSE IF ~IsRefreshToken(tc)
          THEN Finish(p, [l EXCEPT !.status = 401, !.kind = "WrongTokenType"])
          ELSE IF IsExpired(tc, now)
          THEN Finish(p, [l EXCEPT !.status = 401, !.kind = "Expired"])
          ELSE IF ~IsRefreshTokenValid(redis, tc.UserID, tok, now)
          THEN Finish(p, [l EXCEPT !.status = 401, !.kind = "RevokedOrUnknown"])
          ELSE /\ pc' = [pc EXCEPT ![p] = "rf_rotate_get"]
               /\ loc' = [loc EXCEPT ![p] = l]
    /\ UNCHANGED <<now, secTicks, rdb, redis, users, roles, userRoles, known, hist, probe>>

\* the user the Gin handler rebuilds from the claims of the presented token
UserFromClaims(tc) ==
    [NoUser EXCEPT !.id = tc.UserID, !.telegramID = tc.TelegramID, !.role = tc.Role]

\* other workers that are between the GET and the SET of UpdateRefreshToken
\* for the same key and the same oldToken
MidRotate(p) ==
    {q \in Procs \ {p} : /\ pc[q] = "rf_rotate_set"
                         /\ loc[q].uid = loc[p].uid
                         /\ loc[q].tok = loc[p].tok}

\* RefreshToken: the two Generate calls, then UpdateRefreshToken's GET and comparison
RefreshRotateGet(p) ==
    /\ pc[p] = "rf_rotate_get"
    /\ LET u == UserFromClaims(loc[p].tc)
           acc == GenerateAccessToken(u, Still(now))
           ref == GenerateRefreshToken(u, Still(now))
           l == [loc[p] EXCEPT !.user = u, !.acc = acc, !.ref = ref]
       IN IF ~UpdateRefreshTokenCheck(redis, loc[p].uid, loc[p].tok, now)
          THEN Finish(p, [l EXCEPT !.status = 500, !.kind = "StaleToken", !.rot = "stale"])
          ELSE /\ pc' = [pc EXCEPT ![p] = "rf_rotate_set"]
               /\ loc' = [q \in Procs |->
                            IF q = p THEN [l EXCEPT !.with = MidRotate(p)]
                            ELSE IF q \in MidRotate(p) THEN [loc[q] EXCEPT !.with = @ \cup {p}]
                            ELSE loc[q]]
    /\ UNCHANGED <<now, secTicks, rdb, redis, users, roles, userRoles, known, reqs, hist, probe>>

\* RefreshToken: UpdateRefreshToken's SET, then the 200 response
RefreshRotateSet(p) ==
    /\ pc[p] = "rf_rotate_set"
    /\ redis' = UpdateRefreshTokenSet(redis, loc[p].uid, loc[p].ref, now)
    /\ Finish(p, [loc[p] EXCEPT !.status = 200, !.kind = "OK", !.rot = "ok"])
    /\ known' = known \cup {loc[p].acc, loc[p].ref}
    /\ hist' = [hist EXCEPT !.superseded = @ \cup {loc[p].tok},
                            !.issuedTo[loc[p].uid] = @ \cup {loc[p].ref},
                            !.latest[loc[p].uid] = loc[p].ref,
                            !.replaced[loc[p].uid] = @ \cup ({hist.latest[loc[p].uid]} \ {NoTok})]
    /\ UNCHANGED <<now, secTicks, rdb, users, roles, userRoles, reqs, probe>>

\* the Authorization header of a request: a scheme word and a token string
Schemes == {"Bearer", "Basic"}

\* JWTMiddleware that also asks for a stored refresh token of the user
JWTMiddleware_sessionBound(scheme, tok, t) ==
    LET tc == ParseJWT(tok, t)
    IN IF scheme = "Bearer" /\ tc.ok /\ IsAccessToken(tc) /\ ~IsExpired(tc, t)
          /\ tc.UserID \in DOMAIN redis /\ redis[tc.UserID] # NoEntry
       THEN [pass |-> TRUE, tc |-> tc]
       ELSE [pass |-> FALSE, tc |-> tc]

\* JWTMiddleware (Gin): c.Next() with the claims in the context, or c.Abort()
JWTMiddleware(scheme, tok, t) ==
    LET tc == ParseJWT(tok, t)
    IN IF scheme # "Bearer" THEN [pass |-> FALSE, tc |-> ParseError]
       ELSE IF ~tc.ok THEN [pass |-> FALSE, tc |-> tc]
       ELSE IF ~IsAccessToken(tc) THEN [pass |-> FALSE, tc |-> tc]
       ELSE IF IsExpired(tc, t) THEN [pass |-> FALSE, tc |-> tc]
       ELSE [pass |-> TRUE, tc |-> tc]

\* HTTPAuthMiddleware without the check of the token type
HTTPAuthMiddleware_anyType(scheme, tok, t) ==
    LET tc == ParseJWT(tok, t)
    IN [pass |-> scheme = "Bearer" /\ tc.ok, tc |-> tc]

\* HTTPAuthMiddleware (net/http): next.ServeHTTP with the claims in the
\* context, or http.Error
HTTPAuthMiddleware(scheme, tok, t) ==
    LET tc == ParseJWT(tok, t)
    IN IF scheme # "Bearer" THEN [pass |-> FALSE, tc |-> ParseError]
       ELSE IF ~tc.ok THEN [pass |-> FALSE, tc |-> tc]
       ELSE IF ~IsAccessToken(tc) THEN [pass |-> FALSE, tc |-> tc]
       ELSE [pass |-> TRUE, tc |-> tc]

\* AuthHandler.Logout behind JWTMiddleware: RevokeRefreshToken(user_id), 200
Logout(p, tok) ==
    /\ pc[p] = "idle"
    /\ reqs < MaxReqs
    /\ reqs' = reqs + 1
    /\ LET m == JWTMiddleware("Bearer", tok, now)
           l == [IdleLoc EXCEPT !.op = "logout", !.tok = tok, !.tc = m.tc, !.uid = m.tc.UserID]
       IN IF ~m.pass
          THEN /\ Finish(p, [l EXCEPT !.status = 401, !.kind = "Unauthorized"])
               /\ UNCHANGED <<redis, hist>>
          ELSE /\ redis' = RevokeRefreshToken(redis, m.tc.UserID)
               /\ Finish(p, [l EXCEPT !.status = 200, !.kind = "OK"])
               /\ hist' = [hist EXCEPT !.revoked[m.tc.UserID] = hist.issuedTo[m.tc.UserID]]
    /\ UNCHANGED <<now, secTicks, rdb, users, roles, userRoles, known, probe>>

\* AuthHTTPHandler.Logout behind HTTPAuthMiddleware: answers success, revokes nothing
LogoutHTTP(p, tok) ==
    /\ pc[p] = "idle"
    /\ reqs < MaxReqs
    /\ reqs' = reqs + 1
    /\ LET m == HTTPAuthMiddleware("Bearer", tok, now)
           l == [IdleLoc EXCEPT !.op = "logout_http", !.tok = tok, !.tc = m.tc, !.uid = m.tc.UserID]
       IN IF ~m.pass
          THEN /\ Finish(p, [l EXCEPT !.status = 401, !.kind = "Unauthorized"])
               /\ UNCHANGED hist
          ELSE /\ Finish(p, [l EXCEPT !.status = 200, !.kind = "OK"])
               /\ hist' = [hist EXCEPT !.revoked[m.tc.UserID] = hist.issuedTo[m.tc.UserID]]
    /\ UNCHANGED <<now, secTicks, rdb, redis, users, roles, userRoles, known, probe>>

\* the nanosecond clock advances within the second
TickNs ==
    /\ now.ns < MaxNs
    /\ now' = [now EXCEPT !.ns = @ + 1]
    /\ UNCHANGED <<secTicks, rdb, redis, users, roles, userRoles, pc, loc, known, reqs, hist, probe>>

\* the clock advances by whole seconds
TickSec(d) ==
    /\ secTicks < MaxSecTicks
    /\ now' = [sec |-> now.sec + d, ns |-> 0]
    /\ secTicks' = secTicks + 1
    /\ UNCHANGED <<rdb, redis, users, roles, userRoles, pc, loc, known, reqs, hist, probe>>

MaxUsers == 2
UserIDs == 1..MaxUsers

NoHist == [superseded |-> {}, issuedTo |-> [u \in UserIDs |-> {}], revoked |-> [u \in UserIDs |-> {}],
           latest |-> [u \in UserIDs |-> NoTok], replaced |-> [u \in UserIDs |-> {}]]
NoProbe == [op |-> "none"]

Init ==
    /\ now = [sec |-> StartUnix, ns |-> 0]
    /\ secTicks = 0
    /\ rdb \in BOOLEAN
    /\ redis = [u \in UserIDs |-> NoEntry]
    /\ users = <<>>
    /\ roles = <<>>
    /\ userRoles = <<>>
    /\ pc = [p \in Procs |-> "idle"]
    /\ loc = [p \in Procs |-> IdleLoc]
    /\ known = {}
    /\ reqs = 0
    /\ hist = NoHist
    /\ probe = NoProbe

Next ==
    \/ \E p \in Procs, id \in TelegramIDs, key \in {HandlerBotToken, ""} :
          TelegramAuthStart(p, Assertion(id, key, now))
    \/ \E p \in Procs : TelegramAuthUpdate(p)
    \/ \E p \in Procs : TelegramAuthCreate(p)
    \/ \E p \in Procs : TelegramAuthStore(p)
    \/ \E p \in Procs, tok \in known : RefreshStart(p, tok)
    \/ \E p \in Procs : RefreshRotateGet(p)
    \/ \E p \in Procs : RefreshRotateSet(p)
    \/ \E p \in Procs, tok \in known : Logout(p, tok)
    \/ \E p \in Procs, tok \in known : LogoutHTTP(p, tok)
    \/ TickNs
    \/ TickSec(RefreshLifetime)

Spec == Init /\ [][Next]_vars


(***************************************************************************)
(* Refresh-token rotation, replay and logout.                              *)
(***************************************************************************)
\* the refresh requests that have been answered
AnsweredRefresh == {p \in Procs : pc[p] = "idle" /\ loc[p].op = "refresh"}

\* C1: with the cache present, of two Rotate (UpdateRefreshToken) calls for
\* the same user that run concurrently with the same oldToken exactly one
\* succeeds and the other fails with StaleToken.
C1_RotateExactlyOnce ==
    rdb => \A p, q \in AnsweredRefresh :
              (p # q /\ q \in loc[p].with /\ p \in loc[q].with)
                 => \/ loc[p].rot = "ok" /\ loc[q].rot = "stale"
                    \/ loc[p].rot = "stale" /\ loc[q].rot = "ok"

\* C2: with the cache present, once a RefreshTokens call presenting T has
\* succeeded, no later RefreshTokens call presenting T succeeds.
C2_SupersededTokenRejected ==
    rdb => \A p \in AnsweredRefresh : loc[p].stale => loc[p].status # 200

\* C3: with the cache present, once Logout has answered success for a user,
\* no RefreshTokens call presenting a refresh token issued to that user
\* before the logout succeeds, until that user logs in again.
C3_LogoutRevokes ==
    rdb => \A p \in AnsweredRefresh : loc[p].afterLogout => loc[p].status # 200

\* C36: with the cache present, a rotation that runs concurrently with a
\* Logout of the same user does not write a token after the revocation has
\* deleted the record: when UpdateRefreshToken reaches its SET and the
\* user's record is gone, no refresh token is stored for the user afterwards.
C36_NoStoreAfterRevoke ==
    [][\A p \in Procs :
          (rdb /\ RefreshRotateSet(p) /\ redis[loc[p].uid] = NoEntry)
             => redis'[loc[p].uid] = NoEntry]_vars

\* C13: with the cache present, after any sequence of logins, refreshes and
\* logouts, a refresh token that IsValid accepts for a user is the one
\* returned by that user's most recent successful login or refresh, and the
\* refresh tokens returned by the earlier ones are no longer accepted.
C13_OnlyLatestTokenValid ==
    rdb => \A u \in UserIDs : \A t \in known :
              IsRefreshTokenValid(redis, u, t, now)
                 => t = hist.latest[u] /\ t \notin hist.replaced[u]

\* the requests of the three flows that have been answered
AnsweredFlow == {p \in Procs : pc[p] = "idle" /\ loc[p].op \in {"telegram", "refresh", "logout"}}

\* C15: when the service is built without a cache (nil client), Store,
\* Rotate and Revoke succeed and change nothing, IsValid is true for every
\* user and token, and no login, refresh or logout request fails on the
\* store (RevokedOrUnknown, StaleToken, store error).
C15_NilCacheDegrades ==
    ~rdb =>
       /\ redis = [u \in UserIDs |-> NoEntry]
       /\ \A u \in UserIDs : \A t \in known \cup {NoTok} :
             /\ IsRefreshTokenValid(redis, u, t, now)
             /\ UpdateRefreshTokenCheck(redis, u, t, now)
             /\ UpdateRefreshTokenSet(redis, u, t, now) = redis
             /\ StoreRefreshToken(redis, u, t, now) = redis
             /\ RevokeRefreshToken(redis, u) = redis
       /\ \A p \in AnsweredFlow :
             loc[p].kind \in {"OK", "AuthInvalid", "Internal", "InvalidToken",
                              "WrongTokenType", "Expired", "Unauthorized"}

\* without a cache, a refresh and a logout have been answered with success
C15_Witness ==
    /\ ~rdb
    /\ \E p, q \in Procs :
          /\ pc[p] = "idle" /\ loc[p].op = "refresh" /\ loc[p].status = 200
          /\ pc[q] = "idle" /\ loc[q].op = "logout" /\ loc[q].status = 200

\* C16: RefreshTokens presented with a token that parses (service
\* signature, not expired) and whose kind is not refresh answers
\* WrongTokenType at once, returns no tokens and leaves every stored
\* refresh token as it is.
C16_WrongKindRefused ==
    [][\A p \in Procs : \A tok \in known :
          (/\ RefreshStart(p, tok)
           /\ ParseJWT(tok, now).ok
           /\ ParseJWT(tok, now).Type # "refresh")
             => /\ pc'[p] = "idle"
                /\ loc'[p].status = 401 /\ loc'[p].kind = "WrongTokenType"
                /\ redis' = redis
                /\ known' = known]_vars

\* a refresh request presenting an access token has been refused, with a
\* refresh token in the store
C16_Witness ==
    \E p \in AnsweredRefresh :
       /\ loc[p].kind = "WrongTokenType"
       /\ \E u \in UserIDs : redis[u] # NoEntry

\* C17: a successful RefreshTokens issues the new pair from the user record
\* in the user store: the new access token carries the role that a login
\* of that user would put into it at that moment.
C17_RefreshUsesStoredUser ==
    [][\A p \in Procs :
          RefreshRotateSet(p)
             => /\ GetByID(users, loc[p].uid) # NoUser
                /\ loc[p].acc = GenerateAccessToken(GetByID(users, loc[p].uid),
                                     Still([sec |-> loc[p].acc.claims["iat"][2],
                                            ns |-> loc[p].acc.claims["jti"][2][1][2]]))]_vars

\* C18: RefreshTokens presented with a refresh token signed by the service
\* whose exp is in the past answers Expired (not InvalidToken) and changes
\* nothing in the store.
C18_ExpiredReported ==
    [][\A p \in Procs : \A tok \in known :
          (/\ RefreshStart(p, tok)
           /\ SignatureVerifies(tok, JwtSecret)
           /\ tok.claims["type"] = Str("refresh")
           /\ \/ tok.claims["exp"][2] < now.sec
              \/ tok.claims["exp"][2] = now.sec /\ now.ns > 0)
             => /\ loc'[p].kind = "Expired"
                /\ redis' = redis]_vars

\* the part of C13 that the code keeps: what IsValid accepts is the token of
\* the most recent successful login or refresh
C13_ValidIsLatest ==
    rdb => \A u \in UserIDs : \A t \in known :
              IsRefreshTokenValid(redis, u, t, now) => t = hist.latest[u]


(***************************************************************************)
(* RBAC: tables roles and user_roles, roleRepository and roleService.      *)
(* user_roles carries no unique index on (user_id, role_id); rows are soft *)
(* deleted.  The role service never reads table users.                     *)
(***************************************************************************)
MaxRoleReqs == 4

RoleUserIDs == {1, 2}
RoleIDs == {1, 2, 4}

NoRole == [id |-> 0, name |-> "", permissions |-> "", deleted |-> FALSE]

\* the three roles the migration lists, each with its fixed permission descriptor
BuiltinRoles ==
    <<[NoRole EXCEPT !.name = "admin", !.permissions = "{\"users\": [\"create\", \"read\", \"update\", \"delete\"], \"barbers\": [\"create\", \"read\", \"update\", \"delete\"], \"appointments\": [\"create\", \"read\", \"update\", \"delete\"]}"],
      [NoRole EXCEPT !.name = "barber", !.permissions = "{\"appointments\": [\"create\", \"read\", \"update\"], \"profile\": [\"read\", \"update\"]}"],
      [NoRole EXCEPT !.name = "client", !.permissions = "{\"appointments\": [\"create\", \"read\"], \"profile\": [\"read\", \"update\"]}"]>>

\* the unique index on roles.name covers soft-deleted rows as well
RoleNameTaken(rtbl, name) == \E i \in 1..Len(rtbl) : rtbl[i].name = name

\* roleRepository.CreateRole / db.Create: INSERT, refused by the unique index
CreateRole(rtbl, role) ==
    IF RoleNameTaken(rtbl, role.name)
    THEN [err |-> TRUE, tbl |-> rtbl]
    ELSE [err |-> FALSE, tbl |-> Append(rtbl, [role EXCEPT !.id = Len(rtbl) + 1])]

\* the loop body without the lookup: INSERT every time
EnsureRole_noLookup(st, role) == IF st.err THEN st ELSE CreateRole(st.tbl, role)

\* one round of the migration's loop: lookup by name among live rows, INSERT if none
EnsureRole(st, role) ==
    IF st.err THEN st
    ELSE IF \E i \in 1..Len(st.tbl) : ~st.tbl[i].deleted /\ st.tbl[i].name = role.name
    THEN st
    ELSE CreateRole(st.tbl, role)

\* migrations.CreateInitialRoles: the loop over admin, barber, client
CreateInitialRoles(rtbl) ==
    EnsureRole(EnsureRole(EnsureRole([err |-> FALSE, tbl |-> rtbl],
                                     BuiltinRoles[1]), BuiltinRoles[2]), BuiltinRoles[3])

\* roleRepository.GetRoleByName
GetRoleByName(rtbl, name) ==
    LET hits == {i \in 1..Len(rtbl) : ~rtbl[i].deleted /\ rtbl[i].name = name}
    IN IF hits = {} THEN NoRole
       ELSE rtbl[CHOOSE i \in hits : \A j \in hits : i <= j]

\* roleRepository.GetRoleByID
GetRoleByID(rtbl, id) ==
    IF id \in 1..Len(rtbl) /\ ~rtbl[id].deleted THEN rtbl[id] ELSE NoRole

\* roleRepository.UpdateRole / db.Save: every column of the live row with the
\* role's primary key is written; the unique index on name still applies
UpdateRole(rtbl, role) ==
    IF \E i \in 1..Len(rtbl) : i # role.id /\ rtbl[i].name = role.name
    THEN [err |-> TRUE, tbl |-> rtbl]
    ELSE [err |-> FALSE, tbl |-> [rtbl EXCEPT ![role.id] = role]]

\* roleRepository.DeleteRole (soft delete)
DeleteRole(rtbl, id) ==
    [i \in 1..Len(rtbl) |-> IF rtbl[i].id = id /\ ~rtbl[i].deleted
                            THEN [rtbl[i] EXCEPT !.deleted = TRUE] ELSE rtbl[i]]

\* a COUNT that sees soft-deleted rows as well
ActiveRows_withDeleted(urtbl, uid, rid) ==
    {i \in 1..Len(urtbl) : /\ urtbl[i].userID = uid
                           /\ urtbl[i].roleID = rid
                           /\ urtbl[i].isActive = 1}

\* the live, active user_roles rows of a (user, role) pair
ActiveRows(urtbl, uid, rid) ==
    {i \in 1..Len(urtbl) : /\ ~urtbl[i].deleted
                           /\ urtbl[i].userID = uid
                           /\ urtbl[i].roleID = rid
                           /\ urtbl[i].isActive = 1}

\* HasUserRole whose COUNT lost the user_id condition
HasUserRole_anyUser(urtbl, rtbl, uid, roleName) ==
    \E r \in 1..Len(rtbl), i \in 1..Len(urtbl) :
        /\ ~rtbl[r].deleted /\ rtbl[r].name = roleName
        /\ ~urtbl[i].deleted /\ urtbl[i].roleID = rtbl[r].id /\ urtbl[i].isActive = 1

\* roleRepository.HasUserRole: role by name, then COUNT of the active rows
HasUserRole(urtbl, rtbl, uid, roleName) ==
    LET hits == {i \in 1..Len(rtbl) : ~rtbl[i].deleted /\ rtbl[i].name = roleName}
    IN IF hits = {} THEN FALSE
       ELSE LET role == rtbl[CHOOSE i \in hits : \A j \in hits : i <= j]
            IN Cardinality(ActiveRows(urtbl, uid, role.id)) > 0

\* HasAnyRole that looks at the first name only
HasAnyRole_firstOnly(urtbl, rtbl, uid, roleNames) ==
    roleNames # <<>> /\ HasUserRole(urtbl, rtbl, uid, Head(roleNames))

\* roleService.HasAnyRole: the loop returns true at the first role held
RECURSIVE HasAnyRole(_, _, _, _)
HasAnyRole(urtbl, rtbl, uid, roleNames) ==
    IF roleNames = <<>> THEN FALSE
    ELSE IF HasUserRole(urtbl, rtbl, uid, Head(roleNames)) THEN TRUE
    ELSE HasAnyRole(urtbl, rtbl, uid, Tail(roleNames))

\* roleService.HasAllRoles: the loop returns false at the first role not held
RECURSIVE HasAllRoles(_, _, _, _)
HasAllRoles(urtbl, rtbl, uid, roleNames) ==
    IF roleNames = <<>> THEN TRUE
    ELSE IF ~HasUserRole(urtbl, rtbl, uid, Head(roleNames)) THEN FALSE
    ELSE HasAllRoles(urtbl, rtbl, uid, Tail(roleNames))

\* roleRepository.AssignRoleToUser: INSERT with IsActive 1
RepoAssignRoleToUser(urtbl, uid, rid, assignedBy) ==
    Append(urtbl, [userID |-> uid, roleID |-> rid, assignedBy |-> assignedBy,
                   isActive |-> 1, deleted |-> FALSE])

\* a removal whose WHERE lost the role_id condition
RepoRemoveRoleFromUser_wholeUser(urtbl, uid, rid) ==
    [i \in 1..Len(urtbl) |-> IF urtbl[i].userID = uid
                             THEN [urtbl[i] EXCEPT !.deleted = TRUE] ELSE urtbl[i]]

\* roleRepository.RemoveRoleFromUser: soft delete of every row of the pair
RepoRemoveRoleFromUser(urtbl, uid, rid) ==
    [i \in 1..Len(urtbl) |-> IF urtbl[i].userID = uid /\ urtbl[i].roleID = rid
                             THEN [urtbl[i] EXCEPT !.deleted = TRUE] ELSE urtbl[i]]

IdleRoleLoc == [op |-> "none", uid |-> 0, rid |-> 0, role |-> NoRole, kind |-> "",
                hadAtStart |-> FALSE, hasAfter |-> FALSE, added |-> 0,
                alone |-> TRUE, afterOK |-> FALSE]

\* worker p moves to position at with locals l; every other call under way
\* has now run concurrently with another worker
Step(p, at, l) ==
    /\ pc' = [pc EXCEPT ![p] = at]
    /\ loc' = [q \in Procs |-> IF q = p THEN l
                               ELSE IF pc[q] # "idle" THEN [loc[q] EXCEPT !.alone = FALSE]
                               ELSE loc[q]]

\* roleService.AssignRoleToUser: GetRoleByID
AssignRoleStart(p, uid, rid) ==
    /\ pc[p] = "idle"
    /\ reqs < MaxRoleReqs
    /\ reqs' = reqs + 1
    /\ LET role == GetRoleByID(roles, rid)
           l == [IdleRoleLoc EXCEPT !.op = "assign", !.uid = uid, !.rid = rid, !.role = role,
                                    !.hadAtStart = Cardinality(ActiveRows(userRoles, uid, rid)) > 0,
                                    !.afterOK = (<<uid, rid>> \in hist.assigned)]
       IN IF role = NoRole
          THEN Step(p, "idle", [l EXCEPT !.kind = "RoleNotFound"])
          ELSE Step(p, "as_check", l)
    /\ UNCHANGED <<now, secTicks, rdb, redis, users, roles, userRoles, known, hist, probe>>

\* roleService.AssignRoleToUser: HasUserRole(userID, role.Name)
AssignRoleCheck(p) ==
    /\ pc[p] = "as_check"
    /\ IF HasUserRole(userRoles, roles, loc[p].uid, loc[p].role.name)
       THEN Step(p, "idle", [loc[p] EXCEPT !.kind = "AlreadyAssigned",
                               !.hasAfter = HasUserRole(userRoles, roles, loc[p].uid, loc[p].role.name)])
       ELSE Step(p, "as_create", loc[p])
    /\ UNCHANGED <<now, secTicks, rdb, redis, users, roles, userRoles, known, reqs, hist, probe>>

\* roleService.AssignRoleToUser: roleRepo.AssignRoleToUser
AssignRoleCreate(p) ==
    /\ pc[p] = "as_create"
    /\ userRoles' = RepoAssignRoleToUser(userRoles, loc[p].uid, loc[p].rid, 1)
    /\ Step(p, "idle", [loc[p] EXCEPT !.kind = "OK", !.added = 1,
                          !.hasAfter = HasUserRole(userRoles', roles, loc[p].uid, loc[p].role.name)])
    /\ hist' = [hist EXCEPT !.assigned = @ \cup {<<loc[p].uid, loc[p].rid>>}]
    /\ UNCHANGED <<now, secTicks, rdb, redis, users, roles, known, reqs, probe>>

\* roleService.RemoveRoleFromUser
RemoveRoleFromUser(p, uid, rid) ==
    /\ pc[p] = "idle"
    /\ reqs < MaxRoleReqs
    /\ reqs' = reqs + 1
    /\ userRoles' = RepoRemoveRoleFromUser(userRoles, uid, rid)
    /\ Step(p, "idle", [IdleRoleLoc EXCEPT !.op = "remove", !.uid = uid, !.rid = rid, !.kind = "OK"])
    /\ hist' = [hist EXCEPT !.assigned = @ \ {<<uid, rid>>}]
    /\ UNCHANGED <<now, secTicks, rdb, redis, users, roles, known, probe>>

\* roleService.DeleteRole
DeleteRoleReq(p, rid) ==
    /\ pc[p] = "idle"
    /\ reqs < MaxRoleReqs
    /\ reqs' = reqs + 1
    /\ roles' = DeleteRole(roles, rid)
    /\ Step(p, "idle", [IdleRoleLoc EXCEPT !.op = "delete_role", !.rid = rid, !.kind = "OK"])
    /\ hist' = [hist EXCEPT !.assigned = {pr \in @ : pr[2] # rid}]
    /\ UNCHANGED <<now, secTicks, rdb, redis, users, userRoles, known, probe>>

InitRBAC ==
    /\ now = [sec |-> StartUnix, ns |-> 0]
    /\ secTicks = 0
    /\ rdb = TRUE
    /\ redis = [u \in UserIDs |-> NoEntry]
    /\ users = <<>>
    /\ roles = CreateInitialRoles(<<>>).tbl
    /\ userRoles = <<>>
    /\ pc = [p \in Procs |-> "idle"]
    /\ loc = [p \in Procs |-> IdleRoleLoc]
    /\ known = {}
    /\ reqs = 0
    /\ hist = [assigned |-> {}]
    /\ probe = NoProbe

NextRBAC ==
    \/ \E p \in Procs, uid \in RoleUserIDs, rid \in RoleIDs : AssignRoleStart(p, uid, rid)
    \/ \E p \in Procs : AssignRoleCheck(p)
    \/ \E p \in Procs : AssignRoleCreate(p)
    \/ \E p \in Procs, uid \in RoleUserIDs, rid \in RoleIDs : RemoveRoleFromUser(p, uid, rid)
    \/ \E p \in Procs, rid \in RoleIDs : DeleteRoleReq(p, rid)

SpecRBAC == InitRBAC /\ [][NextRBAC]_vars

\* the assign calls that have returned
ReturnedAssign == {p \in Procs : pc[p] = "idle" /\ loc[p].op = "assign"}

\* C6: a (user, role) pair has at most one active assignment, under every
\* interleaving of concurrent AssignRole calls.
C6_AtMostOneActiveAssignment ==
    \A uid \in RoleUserIDs, rid \in RoleIDs :
        Cardinality(ActiveRows(userRoles, uid, rid)) <= 1

\* C7: an AssignRole call that runs with no other call beside it, for a pair
\* that is not assigned, succeeds and creates one assignment; run again for
\* the pair it fails with AlreadyAssigned and creates nothing; HasRole is
\* true after either call.
C7_SecondAssignRejected ==
    \A p \in ReturnedAssign :
        (loc[p].alone /\ loc[p].role # NoRole) =>
            /\ loc[p].hasAfter
            /\ IF loc[p].hadAtStart
               THEN loc[p].kind = "AlreadyAssigned" /\ loc[p].added = 0
               ELSE loc[p].kind = "OK" /\ loc[p].added = 1

\* the second of two calls in sequence has been refused
C7_Witness ==
    \E p \in ReturnedAssign :
        /\ loc[p].alone /\ loc[p].afterOK /\ loc[p].hadAtStart
        /\ loc[p].kind = "AlreadyAssigned"
        /\ Cardinality(ActiveRows(userRoles, loc[p].uid, loc[p].rid)) = 1


\* C31: RemoveRole leaves the pair without a live active row, so HasRole for
\* the role's name is false right after it; it adds no row and revives none;
\* when the pair has no live row the table stays as it was and the call still
\* returns nil; the rows of every other pair stay as they were.
C31_RemoveRoleFrame ==
    [][\A p \in Procs, uid \in RoleUserIDs, rid \in RoleIDs :
          RemoveRoleFromUser(p, uid, rid) =>
              /\ ActiveRows(userRoles', uid, rid) = {}
              /\ GetRoleByID(roles, rid) # NoRole =>
                     ~HasUserRole(userRoles', roles', uid, GetRoleByID(roles, rid).name)
              /\ Len(userRoles') = Len(userRoles)
              /\ \A i \in 1..Len(userRoles) :
                     /\ userRoles[i].deleted => userRoles'[i] = userRoles[i]
                     /\ (userRoles[i].userID # uid \/ userRoles[i].roleID # rid) =>
                            userRoles'[i] = userRoles[i]
              /\ ({i \in 1..Len(userRoles) : ~userRoles[i].deleted /\ userRoles[i].userID = uid
                                               /\ userRoles[i].roleID = rid} = {}) =>
                     userRoles' = userRoles
              /\ loc'[p].kind = "OK"]_vars

\* a removal took the pair's row away while the user keeps another role, and a
\* removal for a pair without rows has returned too
C31_Witness ==
    \E p, q \in Procs :
        /\ pc[p] = "idle" /\ loc[p].op = "remove"
        /\ \E i \in 1..Len(userRoles) :
               userRoles[i].deleted /\ userRoles[i].userID = loc[p].uid
                                    /\ userRoles[i].roleID = loc[p].rid
        /\ ActiveRows(userRoles, loc[p].uid, loc[p].rid) = {}
        /\ \E rid \in RoleIDs : rid # loc[p].rid /\ ActiveRows(userRoles, loc[p].uid, rid) # {}
        /\ pc[q] = "idle" /\ loc[q].op = "remove"
        /\ \A i \in 1..Len(userRoles) :
               userRoles[i].userID # loc[q].uid \/ userRoles[i].roleID # loc[q].rid


\* the pair had an assignment that RemoveRole took away: a soft-deleted row is
\* left and no live one
Removed(uid, rid) ==
    /\ \E i \in 1..Len(userRoles) :
           userRoles[i].deleted /\ userRoles[i].userID = uid /\ userRoles[i].roleID = rid
    /\ \A i \in 1..Len(userRoles) :
           (userRoles[i].userID = uid /\ userRoles[i].roleID = rid) => userRoles[i].deleted

\* C38: an AssignRole call for a pair whose assignment was removed, run with no
\* other call beside it, passes the role lookup and the HasRole check, inserts,
\* returns nil, and then HasRole is true and the pair has one active row.
C38_AssignAfterRemove ==
    [][\A p \in Procs :
          /\ \A uid \in RoleUserIDs, rid \in RoleIDs :
                (AssignRoleStart(p, uid, rid) /\ Removed(uid, rid)
                    /\ GetRoleByID(roles, rid) # NoRole) => pc'[p] = "as_check"
          /\ (AssignRoleCheck(p) /\ loc[p].alone /\ Removed(loc[p].uid, loc[p].rid)) =>
                pc'[p] = "as_create"
          /\ (AssignRoleCreate(p) /\ loc[p].alone /\ Removed(loc[p].uid, loc[p].rid)) =>
                /\ pc'[p] = "idle" /\ loc'[p].kind = "OK"
                /\ HasUserRole(userRoles', roles', loc[p].uid, loc[p].role.name)
                /\ Cardinality(ActiveRows(userRoles', loc[p].uid, loc[p].rid)) = 1]_vars

\* assign, remove, assign again: the third call returned nil and the pair has
\* its removed row and one active row
C38_Witness ==
    /\ reqs = 3
    /\ \E p \in ReturnedAssign :
          /\ loc[p].alone /\ loc[p].kind = "OK"
          /\ \E i \in 1..Len(userRoles) :
                 userRoles[i].deleted /\ userRoles[i].userID = loc[p].uid
                                      /\ userRoles[i].roleID = loc[p].rid
          /\ Cardinality(ActiveRows(userRoles, loc[p].uid, loc[p].rid)) = 1
          /\ HasUserRole(userRoles, roles, loc[p].uid, loc[p].role.name)


(***************************************************************************)
(* The role lookups beside role and user deletion: the role service calls  *)
(* of SpecRBAC and userRepository.Delete on a database that holds two      *)
(* users.  Specification SpecLookups.                                      *)
(***************************************************************************)
\* userRepository.Delete (soft delete)
DeleteUser(tbl, id) ==
    [i \in 1..Len(tbl) |-> IF tbl[i].id = id /\ ~tbl[i].deleted
                           THEN [tbl[i] EXCEPT !.deleted = TRUE] ELSE tbl[i]]

\* roleRepository.GetUserRoles: the role ids of the user's live active rows,
\* then the live roles with id IN that list
GetUserRoles(urtbl, rtbl, uid) ==
    LET roleIDs == {urtbl[i].roleID : i \in {j \in 1..Len(urtbl) :
                        ~urtbl[j].deleted /\ urtbl[j].userID = uid /\ urtbl[j].isActive = 1}}
    IN {rtbl[r].id : r \in {k \in 1..Len(rtbl) : ~rtbl[k].deleted /\ rtbl[k].id \in roleIDs}}

\* roleRepository.GetUsersWithRole: the user ids of the role's live active rows,
\* then the live users with id IN that list
GetUsersWithRole(urtbl, utbl, rid) ==
    LET userIDs == {urtbl[i].userID : i \in {j \in 1..Len(urtbl) :
                        ~urtbl[j].deleted /\ urtbl[j].roleID = rid /\ urtbl[j].isActive = 1}}
    IN {utbl[u].id : u \in {k \in 1..Len(utbl) : ~utbl[k].deleted /\ utbl[k].id \in userIDs}}

\* the two users of the repository test
LookupUsers ==
    <<[NoUser EXCEPT !.id = 1, !.telegramID = FromNat(12345), !.username = "user1",
                     !.email = "user1@test.com", !.authMethod = "telegram"],
      [NoUser EXCEPT !.id = 2, !.telegramID = FromNat(67890), !.username = "user2",
                     !.email = "user2@test.com", !.authMethod = "telegram"]>>

LookupRoleIDs == {1, 2}

\* userRepository.Delete called for a user
DeleteUserReq(p, uid) ==
    /\ pc[p] = "idle"
    /\ reqs < MaxRoleReqs
    /\ reqs' = reqs + 1
    /\ users' = DeleteUser(users, uid)
    /\ Step(p, "idle", [IdleRoleLoc EXCEPT !.op = "delete_user", !.uid = uid, !.kind = "OK"])
    /\ UNCHANGED <<now, secTicks, rdb, redis, roles, userRoles, known, hist, probe>>

InitLookups ==
    /\ now = [sec |-> StartUnix, ns |-> 0]
    /\ secTicks = 0
    /\ rdb = TRUE
    /\ redis = [u \in UserIDs |-> NoEntry]
    /\ users = LookupUsers
    /\ roles = CreateInitialRoles(<<>>).tbl
    /\ userRoles = <<>>
    /\ pc = [p \in Procs |-> "idle"]
    /\ loc = [p \in Procs |-> IdleRoleLoc]
    /\ known = {}
    /\ reqs = 0
    /\ hist = [assigned |-> {}]
    /\ probe = NoProbe

NextLookups ==
    \/ \E p \in Procs, uid \in RoleUserIDs, rid \in LookupRoleIDs : AssignRoleStart(p, uid, rid)
    \/ \E p \in Procs : AssignRoleCheck(p)
    \/ \E p \in Procs : AssignRoleCreate(p)
    \/ \E p \in Procs, uid \in RoleUserIDs, rid \in LookupRoleIDs :
          RemoveRoleFromUser(p, uid, rid)
    \/ \E p \in Procs, rid \in LookupRoleIDs : DeleteRoleReq(p, rid)
    \/ \E p \in Procs, uid \in RoleUserIDs : DeleteUserReq(p, uid)

SpecLookups == InitLookups /\ [][NextLookups]_vars

\* C32: GetUserRoles(u) is the set of roles with a live active row for u,
\* GetUsersWithRole(r) the set of users with a live active row of r, and so r
\* is in GetUserRoles(u) iff u is in GetUsersWithRole(r) iff HasRole(u, r.Name).
C32_LookupsInverse ==
    \A uid \in RoleUserIDs, rid \in LookupRoleIDs :
        LET assigned == ActiveRows(userRoles, uid, rid) # {}
        IN /\ (rid \in GetUserRoles(userRoles, roles, uid)) = assigned
           /\ (uid \in GetUsersWithRole(userRoles, users, rid)) = assigned
           /\ assigned = HasUserRole(userRoles, roles, uid, roles[rid].name)


(***************************************************************************)
(* Token validation: ParseJWT and the two middlewares applied to tokens    *)
(* the service issued and to tokens a client made up from them.            *)
(***************************************************************************)
MaxIssues == 1

JwtJumps == {1, AccessLifetime - 1, AccessLifetime, RefreshLifetime}

\* two stored users the service issues tokens for
TokenUsers ==
    {[NoUser EXCEPT !.id = 1, !.telegramID = FromNat(12345), !.role = "client", !.isActive = TRUE],
     [NoUser EXCEPT !.id = 2, !.telegramID = FromNat(54321), !.role = "barber", !.isActive = TRUE]}

\* what a client that holds token b and its own key can present instead of b
Forgeries(b) ==
    {[alg |-> "HS256", claims |-> b.claims, sig |-> SignWith("HS256", AttackerKey, b.claims)],
     [alg |-> "none", claims |-> b.claims, sig |-> NoSig],
     [alg |-> "RS256", claims |-> b.claims, sig |-> SignWith("RS256", AttackerKey, b.claims)],
     [b EXCEPT !.claims["type"] = Str("access")],
     [b EXCEPT !.claims["exp"] = Num(b.claims["exp"][2] + RefreshLifetime)],
     [alg |-> "HS256",
      claims |-> [b.claims EXCEPT !["type"] = Str("access"), !["exp"] = Absent],
      sig |-> SignWith("HS256", AttackerKey,
                       [b.claims EXCEPT !["type"] = Str("access"), !["exp"] = Absent])]}

Presentable == known \cup UNION {Forgeries(b) : b \in known}

\* tokens signed with the service's secret whose user_id claim is missing or is
\* a string, otherwise like the issued token b
LooseTokens(b) ==
    {SignedString([b.claims EXCEPT !["user_id"] = Absent], JwtSecret),
     SignedString([b.claims EXCEPT !["user_id"] = Str("1")], JwtSecret)}

\* the service issues an access and a refresh token for a user
IssuePair(user) ==
    /\ reqs < MaxIssues
    /\ reqs' = reqs + 1
    /\ known' = known \cup {GenerateAccessToken(user, Still(now)), GenerateRefreshToken(user, Still(now))}
    /\ UNCHANGED <<now, secTicks, rdb, redis, users, roles, userRoles, pc, loc, hist, probe>>

\* authService.ParseJWT applied to a presented token
ApplyParseJWT(tok) ==
    /\ probe' = [op |-> "parse", scheme |-> "", tok |-> tok, t |-> now,
                 tc |-> ParseJWT(tok, now), pass |-> FALSE]
    /\ UNCHANGED <<now, secTicks, rdb, redis, users, roles, userRoles, pc, loc, known, reqs, hist>>

\* a request with the Authorization header passes through JWTMiddleware
ApplyJWTMiddleware(scheme, tok) ==
    /\ LET m == JWTMiddleware(scheme, tok, now)
       IN probe' = [op |-> "gin", scheme |-> scheme, tok |-> tok, t |-> now,
                    tc |-> m.tc, pass |-> m.pass]
    /\ UNCHANGED <<now, secTicks, rdb, redis, users, roles, userRoles, pc, loc, known, reqs, hist>>

\* a request with the Authorization header passes through HTTPAuthMiddleware
ApplyHTTPAuthMiddleware(scheme, tok) ==
    /\ LET m == HTTPAuthMiddleware(scheme, tok, now)
       IN probe' = [op |-> "http", scheme |-> scheme, tok |-> tok, t |-> now,
                    tc |-> m.tc, pass |-> m.pass]
    /\ UNCHANGED <<now, secTicks, rdb, redis, users, roles, userRoles, pc, loc, known, reqs, hist>>

InitJWT ==
    /\ now = [sec |-> StartUnix, ns |-> 0]
    /\ secTicks = 0
    /\ rdb = TRUE
    /\ redis = [u \in UserIDs |-> NoEntry]
    /\ users = <<>>
    /\ roles = <<>>
    /\ userRoles = <<>>
    /\ pc = [p \in Procs |-> "idle"]
    /\ loc = [p \in Procs |-> IdleLoc]
    /\ known = {}
    /\ reqs = 0
    /\ hist = NoHist
    /\ probe = NoProbe

NextJWT ==
    \/ \E user \in TokenUsers : IssuePair(user)
    \/ \E tok \in Presentable : ApplyParseJWT(tok)
    \/ \E b \in known : \E tok \in LooseTokens(b) : ApplyParseJWT(tok)
    \/ \E scheme \in Schemes, tok \in Presentable : ApplyJWTMiddleware(scheme, tok)
    \/ \E scheme \in Schemes, tok \in Presentable : ApplyHTTPAuthMiddleware(scheme, tok)
    \/ TickNs
    \/ \E d \in JwtJumps : TickSec(d)

SpecJWT == InitJWT /\ [][NextJWT]_vars

\* the token carries a signature made with the service's secret, with an
\* HMAC algorithm, over exactly its header algorithm and claims
SignedByService(tok) ==
    /\ tok.alg \in HMACFamily
    /\ tok.sig.alg = tok.alg
    /\ tok.sig.key = JwtSecret
    /\ tok.sig.over = tok.claims

\* the token's exp claim lies at or before clock reading t
ExpiredAt(tok, t) == IsNum(tok.claims["exp"]) /\ tok.claims["exp"][2] <= t.sec

\* C4: a middleware lets a request through, with the identity of the
\* token's claims, only if the token has a valid signature, kind access and
\* is not expired; a refresh token and an expired access token never pass.
C4_MiddlewarePassesOnlyValidAccess ==
    probe.op \in {"gin", "http"} =>
        /\ probe.pass =>
              /\ probe.scheme = "Bearer"
              /\ SignedByService(probe.tok)
              /\ probe.tok.claims["type"] = Str("access")
              /\ ~ExpiredAt(probe.tok, probe.t)
              /\ Num(probe.tc.UserID) = probe.tok.claims["user_id"]
        /\ (probe.tok.claims["type"] = Str("refresh") \/ ExpiredAt(probe.tok, probe.t))
              => ~probe.pass

\* an unexpired refresh token issued by the service was presented as a
\* bearer token and turned away
C4_Witness ==
    /\ probe.op \in {"gin", "http"}
    /\ probe.scheme = "Bearer"
    /\ probe.tok \in known
    /\ probe.tok.claims["type"] = Str("refresh")
    /\ ~ExpiredAt(probe.tok, probe.t)
    /\ ~probe.pass

\* C33: ParseJWT returns an error, and no claims, for a token whose user_id
\* claim is missing or is not a number.
C33_StrictUserId ==
    (probe.op = "parse" /\ ~IsNum(probe.tok.claims["user_id"])) => ~probe.tc.ok

\* C5: ParseJWT returns claims only for a token signed with the service's
\* secret with an HMAC-family algorithm; another secret, algorithm none or
\* a non-HMAC algorithm always fails, whatever the claims.
C5_ParseOnlyServiceSigned ==
    probe.op = "parse" =>
        /\ probe.tc.ok => SignedByService(probe.tok)
        /\ (probe.tok.sig.key # JwtSecret \/ probe.tok.alg \notin HMACFamily) => ~probe.tc.ok

\* an unexpired token signed with another secret was parsed and refused
C5_Witness ==
    /\ probe.op = "parse"
    /\ probe.tok.alg = "HS256"
    /\ probe.tok.sig = SignWith("HS256", AttackerKey, probe.tok.claims)
    /\ ~ExpiredAt(probe.tok, probe.t)
    /\ ~probe.tc.ok

\* the access tokens the service has issued whose exp is in the future
LiveAccessTokens ==
    {tok \in known : /\ SignedByService(tok)
                     /\ tok.claims["type"] = Str("access")
                     /\ ~ExpiredAt(tok, now)}

\* C37: an access token with a valid signature and an exp in the future is
\* let through by both middlewares in every state of the refresh-token
\* store, also after the Logout of its user and after the rotation of that
\* user's refresh token.
C37_AccessTokensOutliveStore ==
    \A tok \in LiveAccessTokens :
        /\ JWTMiddleware("Bearer", tok, now).pass
        /\ HTTPAuthMiddleware("Bearer", tok, now).pass

\* the cache is present, a refresh token was rotated and a Logout has since
\* deleted the record of a user who still holds a live access token
C37_Witness ==
    /\ rdb
    /\ hist.superseded # {}
    /\ \E tok \in LiveAccessTokens :
          LET uid == tok.claims["user_id"][2]
          IN /\ redis[uid] = NoEntry
             /\ hist.revoked[uid] # {}
             /\ JWTMiddleware("Bearer", tok, now).pass


(***************************************************************************)
(* Credential verification: ValidateTelegramAuth applied to payloads, and  *)
(* to the same payloads with one field changed.                            *)
(***************************************************************************)
\* the rendering the protocol prescribes: the fields as key=value, sorted
\* by key, joined by newlines
SortedKeys == <<"auth_date", "first_name", "id", "last_name", "username">>

FieldText(d, k) ==
    IF k \in {"auth_date", "id"} THEN FormatInt(d[k]) ELSE d[k]

RECURSIVE JoinLines(_, _)
JoinLines(d, ks) ==
    IF Len(ks) = 0 THEN ""
    ELSE IF Len(ks) = 1 THEN ks[1] \o "=" \o FieldText(d, ks[1])
    ELSE ks[1] \o "=" \o FieldText(d, ks[1]) \o "\n" \o JoinLines(d, Tail(ks))

CanonicalRendering(d) == JoinLines(d, SortedKeys)

\* the hash a client attaches: the hex MAC made with some key, the same in
\* upper case, or something else
HashOf(d, how) ==
    IF how = "signed" THEN <<"hex", <<HandlerBotToken, CanonicalRendering(d)>>>>
    ELSE IF how = "other_key" THEN <<"hex", <<AttackerKey, CanonicalRendering(d)>>>>
    ELSE IF how = "upper_case" THEN <<"HEX", <<HandlerBotToken, CanonicalRendering(d)>>>>
    ELSE <<"hex", <<"", "test_hash">>>>

HashKinds == {"signed", "other_key", "upper_case", "junk"}

FieldValues ==
    [id |-> {FromNat(12345), FromNat(54321), Zero64},
     first_name |-> {"John", "", "John\nid=54321"},
     last_name |-> {"Doe", "Doe\nusername=admin"},
     username |-> {"testuser", "admin"},
     auth_date |-> {FromNat(StartUnix), FromNat(StartUnix - FreshnessWindow),
                    FromNat(StartUnix - FreshnessWindow - 1), FromNat(StartUnix + 60),
                    Zero64, MinInt64}]

Fields == DOMAIN FieldValues

Payloads ==
    {[id |-> i, first_name |-> f, last_name |-> l, username |-> u, auth_date |-> a,
      hash |-> HashOf([id |-> i, first_name |-> f, last_name |-> l, username |-> u,
                       auth_date |-> a], h)] :
        i \in FieldValues.id, f \in FieldValues.first_name, l \in FieldValues.last_name,
        u \in FieldValues.username, a \in FieldValues.auth_date, h \in HashKinds}

\* payload d with field k set to v, the hash kept
WithField(d, k, v) == [d EXCEPT ![k] = v]

\* ValidateTelegramAuth(authData, botToken) is called
ApplyValidate ==
    /\ probe.op = "input"
    /\ probe' = [probe EXCEPT !.op = "validated", !.t = now,
                              !.result = ValidateTelegramAuth(probe.data, HandlerBotToken, now)]
    /\ UNCHANGED <<now, secTicks, rdb, redis, users, roles, userRoles, pc, loc, known, reqs, hist>>

\* ValidateTelegramAuth is called again, one field of the payload changed
ApplyValidateChanged ==
    /\ probe.op = "validated"
    /\ probe' = [probe EXCEPT !.op = "changed", !.t2 = now,
                              !.result2 = ValidateTelegramAuth(
                                             WithField(probe.data, probe.field, probe.value),
                                             HandlerBotToken, now)]
    /\ UNCHANGED <<now, secTicks, rdb, redis, users, roles, userRoles, pc, loc, known, reqs, hist>>

InitVerify ==
    /\ now = [sec |-> StartUnix, ns |-> 0]
    /\ secTicks = 0
    /\ rdb = TRUE
    /\ redis = [u \in UserIDs |-> NoEntry]
    /\ users = <<>>
    /\ roles = <<>>
    /\ userRoles = <<>>
    /\ pc = [p \in Procs |-> "idle"]
    /\ loc = [p \in Procs |-> IdleLoc]
    /\ known = {}
    /\ reqs = 0
    /\ hist = NoHist
    /\ \E d \in Payloads, k \in Fields :
          \E v \in FieldValues[k] :
             probe = [op |-> "input", data |-> d, field |-> k, value |-> v,
                      t |-> now, result |-> FALSE, t2 |-> now, result2 |-> FALSE]

NextVerify ==
    \/ ApplyValidate
    \/ ApplyValidateChanged
    \/ \E d \in {1, FreshnessWindow} : TickSec(d)

SpecVerify == InitVerify /\ [][NextVerify]_vars

\* auth_date is more than 300 seconds before clock reading t (as integers,
\* not as int64 differences)
OlderThanWindow(d, t) == Less64(d.auth_date, FromNat(Unix(t) - FreshnessWindow))

\* C9: ValidateTelegramAuth returns false for every payload whose timestamp
\* is more than 300 seconds older than the current time, whatever its hash.
C9_StaleAlwaysRejected ==
    probe.op \in {"validated", "changed"} =>
        (OlderThanWindow(probe.data, probe.t) => ~probe.result)

\* C10: inside the freshness window the result is true iff the hash is the
\* hex HMAC-SHA256, keyed by the bot token, of the canonical rendering; an
\* accepted payload with one field changed and the hash kept is refused.
C10_TrueIffHashMatches ==
    /\ (probe.op \in {"validated", "changed"} /\ ~OlderThanWindow(probe.data, probe.t)) =>
          (probe.result <=>
             probe.data.hash = HexEncodeToString(HmacSha256(HandlerBotToken,
                                                            CanonicalRendering(probe.data))))
    /\ (probe.op = "changed" /\ probe.result /\ probe.value # probe.data[probe.field]) =>
          ~probe.result2

\* an accepted payload was checked again with a field changed, still inside
\* the window
C10_Witness ==
    /\ probe.op = "changed"
    /\ probe.result
    /\ probe.value # probe.data[probe.field]
    /\ ~OlderThanWindow(WithField(probe.data, probe.field, probe.value), probe.t2)
    /\ ~probe.result2


(***************************************************************************)
(* Direct (email and password) login and registration: the handlers        *)
(* AuthHTTPHandler.LoginDirect and RegisterDirect over the service.  A      *)
(* password hash is symbolic: the scheme and the password it was made      *)
(* from.                                                                   *)
(***************************************************************************)
MaxDirectReqs == 3

\* authService.HashPassword
HashPassword(plain) == <<"bcrypt", plain>>

\* the service's password check against a stored hash
VerifyPassword(plain, storedHash) == storedHash = <<"bcrypt", plain>>

InvalidCredentials == "InvalidCredentials"

\* authService.LoginDirect(req): the user, or the error InvalidCredentials
\* both for an email of no user and for a password that does not match
LoginDirect(tbl, req) ==
    LET user == GetByEmail(tbl, req.email)
    IN IF user = NoUser THEN [user |-> NoUser, err |-> InvalidCredentials]
       ELSE IF ~VerifyPassword(req.password, user.passwordHash)
       THEN [user |-> NoUser, err |-> InvalidCredentials]
       ELSE [user |-> user, err |-> ""]

\* a login handler that answers 404 when the email belongs to no user
LoginDirectResponse_notFound(tbl, req) ==
    LET r == LoginDirect(tbl, req)
    IN IF GetByEmail(tbl, req.email) = NoUser
       THEN [status |-> 404, body |-> "user not found", user |-> NoUser]
       ELSE [status |-> IF r.err # "" THEN 401 ELSE 200,
             body |-> IF r.err # "" THEN "auth error: " \o r.err ELSE "", user |-> r.user]

\* a login handler that goes on to the tokens whatever the password was
LoginDirectResponse_anyPassword(tbl, req) ==
    LET user == GetByEmail(tbl, req.email)
    IN IF user = NoUser
       THEN [status |-> 401, body |-> "auth error: " \o InvalidCredentials, user |-> NoUser]
       ELSE [status |-> 200, body |-> "", user |-> user]

\* AuthHTTPHandler.LoginDirect up to the token generation: http.Error with
\* status 401 and the service's error text appended to a fixed prefix, or
\* the user to issue tokens for
LoginDirectResponse(tbl, req) ==
    LET r == LoginDirect(tbl, req)
    IN IF r.err # ""
       THEN [status |-> 401, body |-> "auth error: " \o r.err, user |-> NoUser]
       ELSE [status |-> 200, body |-> "", user |-> r.user]

IdleDirectLoc == [op |-> "none", email |-> "", password |-> "", want |-> "",
                  registered |-> FALSE, user |-> NoUser,
                  status |-> 0, body |-> "", acc |-> NoTok, ref |-> NoTok, expiresIn |-> 0]

DirectEmails == {"a@x.com", "nobody@x.com", ""}
DirectPasswords == {"secret123", "wrong1"}

\* a user registered with email and password, and a user created by a
\* Telegram login
DirectUser ==
    [NoUser EXCEPT !.id = 1, !.email = "a@x.com", !.passwordHash = HashPassword("secret123"),
                   !.authMethod = "direct", !.firstName = "John", !.lastName = "Doe",
                   !.isActive = TRUE]
TelegramUser ==
    [NoUser EXCEPT !.id = 2, !.telegramID = FromNat(12345), !.username = "testuser",
                   !.firstName = "John", !.lastName = "Doe", !.role = "client",
                   !.isActive = TRUE]

\* POST /api/auth/login: decode, LoginDirect, and the 401 answer
DirectLoginStart(p, req) ==
    /\ pc[p] = "idle"
    /\ reqs < MaxDirectReqs
    /\ reqs' = reqs + 1
    /\ LET resp == LoginDirectResponse(users, req)
           l == [IdleDirectLoc EXCEPT !.op = "login_direct", !.email = req.email,
                    !.registered = (\E i \in 1..Len(users) :
                                       ~users[i].deleted /\ users[i].email = req.email),
                    !.status = resp.status, !.body = resp.body]
       IN IF resp.status # 200
          THEN /\ pc' = [pc EXCEPT ![p] = "idle"]
               /\ loc' = [loc EXCEPT ![p] = l]
          ELSE /\ pc' = [pc EXCEPT ![p] = "dl_store"]
               /\ loc' = [loc EXCEPT ![p] = [l EXCEPT !.status = 0, !.user = resp.user]]
    /\ UNCHANGED <<now, secTicks, rdb, redis, users, roles, userRoles, known, hist, probe>>

\* LoginDirect: GenerateAccessToken, GenerateRefreshToken, StoreRefreshToken, 200
DirectLoginStore(p) ==
    /\ pc[p] = "dl_store"
    /\ LET u == loc[p].user
           acc == GenerateAccessToken(u, Still(now))
           ref == GenerateRefreshToken(u, Still(now))
       IN /\ redis' = StoreRefreshToken(redis, u.id, ref, now)
          /\ pc' = [pc EXCEPT ![p] = "idle"]
          /\ loc' = [loc EXCEPT ![p] = [loc[p] EXCEPT !.status = 200, !.acc = acc, !.ref = ref,
                                                      !.expiresIn = 900]]
          /\ known' = known \cup {acc, ref}
    /\ UNCHANGED <<now, secTicks, rdb, users, roles, userRoles, reqs, hist, probe>>

EmailTaken == "EmailTaken"

\* authService.RegisterUserDirect(req) up to the INSERT: EmailTaken when a user
\* has the email, else the user to create, with the hash of the password
RegisterUserDirect(tbl, req) ==
    IF GetByEmail(tbl, req.email) # NoUser
    THEN [user |-> NoUser, err |-> EmailTaken]
    ELSE [user |-> [NoUser EXCEPT !.email = req.email,
                                  !.passwordHash = HashPassword(req.password),
                                  !.firstName = req.firstName, !.lastName = req.lastName,
                                  !.authMethod = "direct", !.isActive = TRUE],
          err |-> ""]

\* the registration requests: a registered and a free email, the role client
RegisterRequests ==
    {[email |-> e, password |-> pw, firstName |-> "New", lastName |-> "User", role |-> "client"] :
        e \in {"a@x.com", "nobody@x.com"}, pw \in DirectPasswords}

\* http.Error of RegisterDirect: status 400, the service's error after a prefix
RegisterRefused(p, l, err) ==
    /\ pc' = [pc EXCEPT ![p] = "idle"]
    /\ loc' = [loc EXCEPT ![p] = [l EXCEPT !.status = 400, !.user = NoUser,
                                            !.body = "registration error: " \o err]]

\* POST /api/auth/register: decode, RegisterUserDirect up to the email check
RegisterDirectStart(p, req) ==
    /\ pc[p] = "idle"
    /\ reqs < MaxDirectReqs
    /\ reqs' = reqs + 1
    /\ LET r == RegisterUserDirect(users, req)
           l == [IdleDirectLoc EXCEPT !.op = "register_direct", !.email = req.email,
                                      !.password = req.password, !.want = req.role]
       IN IF r.err # ""
          THEN RegisterRefused(p, l, r.err)
          ELSE /\ pc' = [pc EXCEPT ![p] = "rd_create"]
               /\ loc' = [loc EXCEPT ![p] = [l EXCEPT !.user = r.user]]
    /\ UNCHANGED <<now, secTicks, rdb, redis, users, roles, userRoles, known, hist, probe>>

\* RegisterUserDirect: the INSERT of the user
RegisterDirectCreate(p) ==
    /\ pc[p] = "rd_create"
    /\ IF UniqueViolation(users, loc[p].user)
       THEN /\ RegisterRefused(p, loc[p], "Internal")
            /\ UNCHANGED users
       ELSE /\ users' = CreateUser(users, loc[p].user)
            /\ pc' = [pc EXCEPT ![p] = "rd_assign"]
            /\ loc' = [loc EXCEPT ![p].user.id = Len(users) + 1]
    /\ UNCHANGED <<now, secTicks, rdb, redis, roles, userRoles, known, reqs, hist, probe>>

\* RegisterUserDirect: the requested role is assigned through the role repository
RegisterDirectAssign(p) ==
    /\ pc[p] = "rd_assign"
    /\ LET role == GetRoleByName(roles, loc[p].want)
           uid == loc[p].user.id
       IN IF role = NoRole
          THEN /\ RegisterRefused(p, loc[p], "Internal")
               /\ UNCHANGED userRoles
          ELSE /\ userRoles' = RepoAssignRoleToUser(userRoles, uid, role.id, uid)
               /\ pc' = [pc EXCEPT ![p] = "rd_store"]
               /\ UNCHANGED loc
    /\ UNCHANGED <<now, secTicks, rdb, redis, users, roles, known, reqs, hist, probe>>

\* RegisterDirect: GenerateAccessToken, GenerateRefreshToken, StoreRefreshToken, 200;
\* probe keeps the credentials of the registration that succeeded
RegisterDirectStore(p) ==
    /\ pc[p] = "rd_store"
    /\ LET u == loc[p].user
           acc == GenerateAccessToken(u, Still(now))
           ref == GenerateRefreshToken(u, Still(now))
       IN /\ redis' = StoreRefreshToken(redis, u.id, ref, now)
          /\ pc' = [pc EXCEPT ![p] = "idle"]
          /\ loc' = [loc EXCEPT ![p] = [loc[p] EXCEPT !.status = 200, !.acc = acc, !.ref = ref,
                                                      !.expiresIn = 900]]
          /\ known' = known \cup {acc, ref}
          /\ probe' = [op |-> "registered", email |-> loc[p].email,
                       password |-> loc[p].password, uid |-> u.id]
    /\ UNCHANGED <<now, secTicks, rdb, users, roles, userRoles, reqs, hist>>

InitDirect ==
    /\ now = [sec |-> StartUnix, ns |-> 0]
    /\ secTicks = 0
    /\ rdb \in BOOLEAN
    /\ redis = [u \in UserIDs |-> NoEntry]
    /\ users \in {<<>>, <<DirectUser>>, <<DirectUser, TelegramUser>>}
    /\ roles = CreateInitialRoles(<<>>).tbl
    /\ userRoles = <<>>
    /\ pc = [p \in Procs |-> "idle"]
    /\ loc = [p \in Procs |-> IdleDirectLoc]
    /\ known = {}
    /\ reqs = 0
    /\ hist = NoHist
    /\ probe = NoProbe

NextDirect ==
    \/ \E p \in Procs, e \in DirectEmails, pw \in DirectPasswords :
          DirectLoginStart(p, [email |-> e, password |-> pw])
    \/ \E p \in Procs : DirectLoginStore(p)
    \/ \E p \in Procs, req \in RegisterRequests : RegisterDirectStart(p, req)
    \/ \E p \in Procs : RegisterDirectCreate(p)
    \/ \E p \in Procs : RegisterDirectAssign(p)
    \/ \E p \in Procs : RegisterDirectStore(p)
    \/ TickNs

SpecDirect == InitDirect /\ [][NextDirect]_vars

\* the direct logins that were refused
RefusedLogin == {p \in Procs : pc[p] = "idle" /\ loc[p].op = "login_direct" /\ loc[p].status # 200}

C25_EmailTakenNoEffect ==
    [][\A p \in Procs, req \in RegisterRequests :
          (RegisterDirectStart(p, req)
              /\ \E i \in 1..Len(users) : ~users[i].deleted /\ users[i].email = req.email) =>
              /\ pc'[p] = "idle"
              /\ loc'[p].status = 400
              /\ loc'[p].body = "registration error: " \o EmailTaken
              /\ loc'[p].acc = NoTok /\ loc'[p].ref = NoTok
              /\ UNCHANGED <<users, roles, userRoles, redis, known>>]_vars

\* a refused registration for the email of the registered user
C25_Witness ==
    \E p \in Procs :
        /\ pc[p] = "idle" /\ loc[p].op = "register_direct"
        /\ loc[p].email = DirectUser.email /\ loc[p].status = 400
        /\ users = <<DirectUser>>

\* C26: once a registration for (email, password) was answered 200, a login
\* with that email and that password finds the user, who has that email and
\* auth_method "direct", and is answered 200 with both tokens and expires_in
\* 900; a login with that email and another password is answered 401
\* InvalidCredentials.  The registration's own answer carries 900 as well.
C26_RegisterLoginRoundTrip ==
    [][\A p \in Procs :
          /\ \A pw \in DirectPasswords :
                (probe.op = "registered"
                    /\ DirectLoginStart(p, [email |-> probe.email, password |-> pw])) =>
                    IF pw = probe.password
                    THEN /\ pc'[p] = "dl_store"
                         /\ loc'[p].user.id = probe.uid
                         /\ loc'[p].user.email = probe.email
                         /\ loc'[p].user.authMethod = "direct"
                    ELSE /\ pc'[p] = "idle"
                         /\ loc'[p].status = 401
                         /\ loc'[p].body = "auth error: " \o InvalidCredentials
          /\ (DirectLoginStore(p) \/ RegisterDirectStore(p)) =>
                /\ loc'[p].status = 200
                /\ loc'[p].expiresIn = 900
                /\ loc'[p].acc # NoTok /\ loc'[p].ref # NoTok
                /\ loc'[p].acc.claims["exp"] = Num(Unix(now) + AccessLifetime)]_vars

\* after the registration one login with the password was answered 200 and one
\* with the other password 401
C26_Witness ==
    /\ probe.op = "registered"
    /\ \E p, q \in Procs :
          /\ pc[p] = "idle" /\ loc[p].op = "login_direct" /\ loc[p].email = probe.email
          /\ loc[p].status = 200 /\ loc[p].expiresIn = 900
          /\ loc[p].user.authMethod = "direct"
          /\ pc[q] = "idle" /\ loc[q].op = "login_direct" /\ loc[q].email = probe.email
          /\ loc[q].status = 401


(***************************************************************************)
(* The refresh-token store called directly: StoreRefreshToken,             *)
(* IsRefreshTokenValid, UpdateRefreshToken and RevokeRefreshToken applied  *)
(* by concurrent callers to any user id and any token string.  A caller    *)
(* keeps what it passed, what it got back, and the keys as they were just  *)
(* before and just after its Redis command.                                *)
(***************************************************************************)
MaxStoreCalls == 3

\* token strings passed to the store: two refresh tokens and the empty string
StoreTokens ==
    {GenerateRefreshToken([NoUser EXCEPT !.id = 1, !.telegramID = FromNat(12345)],
                          Still([sec |-> StartUnix, ns |-> n])) : n \in 0..1} \cup {NoTok}

IdleStoreLoc == [op |-> "none", uid |-> 0, tok |-> NoTok, new |-> NoTok, res |-> "",
                 seen |-> [found |-> FALSE, val |-> NoTok], at |-> 0,
                 before |-> [u \in UserIDs |-> NoEntry], after |-> [u \in UserIDs |-> NoEntry]]

\* the call returns: its result and the keys around its last command are kept
Return(p, l, res, after) ==
    /\ pc' = [pc EXCEPT ![p] = "idle"]
    /\ loc' = [loc EXCEPT ![p] = [l EXCEPT !.res = res, !.at = Unix(now),
                                            !.before = redis, !.after = after]]
    /\ redis' = after

\* StoreRefreshToken(userID, refreshToken)
StoreCall(p, uid, tok) ==
    /\ pc[p] = "idle"
    /\ reqs < MaxStoreCalls
    /\ reqs' = reqs + 1
    /\ Return(p, [IdleStoreLoc EXCEPT !.op = "store", !.uid = uid, !.tok = tok,
                                      !.seen = RedisGet(redis, uid, now)],
              "nil", StoreRefreshToken(redis, uid, tok, now))
    /\ UNCHANGED <<now, secTicks, rdb, users, roles, userRoles, known, hist, probe>>

\* IsRefreshTokenValid(userID, refreshToken)
IsValidCall(p, uid, tok) ==
    /\ pc[p] = "idle"
    /\ reqs < MaxStoreCalls
    /\ reqs' = reqs + 1
    /\ Return(p, [IdleStoreLoc EXCEPT !.op = "isvalid", !.uid = uid, !.tok = tok,
                                      !.seen = RedisGet(redis, uid, now)],
              IF IsRefreshTokenValid(redis, uid, tok, now) THEN "true" ELSE "false", redis)
    /\ UNCHANGED <<now, secTicks, rdb, users, roles, userRoles, known, hist, probe>>

\* UpdateRefreshToken(userID, oldToken, newToken): the GET and the comparison
RotateCallGet(p, uid, oldTok, newTok) ==
    /\ pc[p] = "idle"
    /\ reqs < MaxStoreCalls
    /\ reqs' = reqs + 1
    /\ LET l == [IdleStoreLoc EXCEPT !.op = "rotate", !.uid = uid, !.tok = oldTok,
                                     !.new = newTok, !.seen = RedisGet(redis, uid, now)]
       IN IF ~UpdateRefreshTokenCheck(redis, uid, oldTok, now)
          THEN Return(p, l, "StaleToken", redis)
          ELSE /\ pc' = [pc EXCEPT ![p] = "st_rotate_set"]
               /\ loc' = [loc EXCEPT ![p] = l]
               /\ UNCHANGED redis
    /\ UNCHANGED <<now, secTicks, rdb, users, roles, userRoles, known, hist, probe>>

\* UpdateRefreshToken: the SET of newToken
RotateCallSet(p) ==
    /\ pc[p] = "st_rotate_set"
    /\ Return(p, loc[p], "nil", UpdateRefreshTokenSet(redis, loc[p].uid, loc[p].new, now))
    /\ UNCHANGED <<now, secTicks, rdb, users, roles, userRoles, known, reqs, hist, probe>>

\* RevokeRefreshToken(userID)
RevokeCall(p, uid) ==
    /\ pc[p] = "idle"
    /\ reqs < MaxStoreCalls
    /\ reqs' = reqs + 1
    /\ Return(p, [IdleStoreLoc EXCEPT !.op = "revoke", !.uid = uid,
                                      !.seen = RedisGet(redis, uid, now)],
              "nil", RevokeRefreshToken(redis, uid))
    /\ UNCHANGED <<now, secTicks, rdb, users, roles, userRoles, known, hist, probe>>

InitStore ==
    /\ now = [sec |-> StartUnix, ns |-> 0]
    /\ secTicks = 0
    /\ rdb \in BOOLEAN
    /\ redis = [u \in UserIDs |-> NoEntry]
    /\ users = <<>>
    /\ roles = <<>>
    /\ userRoles = <<>>
    /\ pc = [p \in Procs |-> "idle"]
    /\ loc = [p \in Procs |-> IdleStoreLoc]
    /\ known = {}
    /\ reqs = 0
    /\ hist = NoHist
    /\ probe = NoProbe

NextStore ==
    \/ \E p \in Procs, u \in UserIDs, t \in StoreTokens : StoreCall(p, u, t)
    \/ \E p \in Procs, u \in UserIDs, t \in StoreTokens : IsValidCall(p, u, t)
    \/ \E p \in Procs, u \in UserIDs, t1, t2 \in StoreTokens : RotateCallGet(p, u, t1, t2)
    \/ \E p \in Procs : RotateCallSet(p)
    \/ \E p \in Procs, u \in UserIDs : RevokeCall(p, u)
    \/ TickSec(RefreshTTL)

SpecStore == InitStore /\ [][NextStore]_vars

\* the callers whose call has returned
Returned(op) == {p \in Procs : pc[p] = "idle" /\ loc[p].op = op}

\* C11: with the cache present, Rotate (UpdateRefreshToken) returns success
\* iff the value it finds stored for the user equals oldToken, and its write
\* then makes newToken the stored value with the 7-day TTL; when the value
\* is absent or different it returns StaleToken and writes nothing.
C11_RotateContract ==
    rdb => \A p \in Returned("rotate") :
              LET l == loc[p]
              IN /\ l.res = "nil" <=> (l.seen.found /\ l.seen.val = l.tok)
                 /\ l.res = "nil" =>
                       /\ l.after[l.uid] = [val |-> l.new, exp |-> l.at + RefreshTTL]
                       /\ \A v \in UserIDs \ {l.uid} : l.after[v] = l.before[v]
                 /\ l.res # "nil" => l.res = "StaleToken" /\ l.after = l.before

\* a Rotate that matched and one that found another value or none
C11_Witness ==
    /\ rdb
    /\ \E p, q \in Procs :
          /\ p \in Returned("rotate") /\ loc[p].res = "nil" /\ loc[p].new # loc[p].tok
          /\ q \in Returned("rotate") /\ loc[q].res = "StaleToken"
          /\ loc[q].seen.found /\ loc[q].seen.val # loc[q].tok

\* C12: with the cache present, IsValid (IsRefreshTokenValid) is true iff a
\* value is stored for the user and equals the token passed; it is false
\* when nothing is stored and for every other token string.
C12_IsValidContract ==
    rdb => \A p \in Returned("isvalid") :
              LET l == loc[p]
              IN /\ l.res = "true" <=> (l.seen.found /\ l.seen.val = l.tok)
                 /\ ~l.seen.found => l.res = "false"
                 /\ l.after = l.before

\* an IsValid that held and one for another token than the stored one
C12_Witness ==
    /\ rdb
    /\ \E p, q \in Procs :
          /\ p \in Returned("isvalid") /\ loc[p].res = "true"
          /\ q \in Returned("isvalid") /\ loc[q].res = "false"
          /\ loc[q].seen.found /\ loc[q].seen.val # loc[q].tok

\* C14: with the cache present, Revoke (RevokeRefreshToken) succeeds whether
\* or not a token is stored; right after it IsValid is false for every
\* token; a second Revoke would change nothing; other users' records are
\* as they were.
C14_RevokeContract ==
    rdb => \A p \in Returned("revoke") :
              LET l == loc[p]
              IN /\ l.res = "nil"
                 /\ \A t \in StoreTokens :
                       ~IsRefreshTokenValid(l.after, l.uid, t, [sec |-> l.at, ns |-> 0])
                 /\ RevokeRefreshToken(l.after, l.uid) = l.after
                 /\ \A v \in UserIDs \ {l.uid} : l.after[v] = l.before[v]

\* a Revoke of a stored token beside another user's record
C14_Witness ==
    /\ rdb
    /\ \E p \in Returned("revoke") :
          /\ loc[p].seen.found
          /\ \E v \in UserIDs \ {loc[p].uid} : loc[p].before[v] # NoEntry


(***************************************************************************)
(* Token issuance with the clock running: GenerateAccessToken and          *)
(* GenerateRefreshToken read time.Now() four times (exp, iat, and twice in *)
(* generateJTI); the clock may advance, or not, between any two readings   *)
(* and between two calls.  Each token is parsed as soon as it is returned. *)
(***************************************************************************)
MaxIssueCalls == 2

TokenKinds == {"access", "refresh"}

IdleIssueLoc == [op |-> "none", kind |-> "", user |-> NoUser,
                 r |-> Still([sec |-> 0, ns |-> 0])]

\* a Generate call begins: the reading for exp
IssueStart(p, kind, user) ==
    /\ pc[p] = "idle"
    /\ reqs < MaxIssueCalls
    /\ reqs' = reqs + 1
    /\ pc' = [pc EXCEPT ![p] = "iss_iat"]
    /\ loc' = [loc EXCEPT ![p] = [op |-> "issue", kind |-> kind, user |-> user,
                                  r |-> [IdleIssueLoc.r EXCEPT !.exp = now]]]
    /\ UNCHANGED <<now, secTicks, rdb, redis, users, roles, userRoles, known, hist, probe>>

\* the reading for iat, then the reading for UnixNano in generateJTI
IssueRead(p) ==
    /\ pc[p] \in {"iss_iat", "iss_nano"}
    /\ IF pc[p] = "iss_iat"
       THEN /\ pc' = [pc EXCEPT ![p] = "iss_nano"]
            /\ loc' = [loc EXCEPT ![p].r.iat = now]
       ELSE /\ pc' = [pc EXCEPT ![p] = "iss_unix"]
            /\ loc' = [loc EXCEPT ![p].r.nano = now]
    /\ UNCHANGED <<now, secTicks, rdb, redis, users, roles, userRoles, known, reqs, hist, probe>>

\* the reading for Unix in generateJTI, SignedString, and ParseJWT of the
\* token returned
IssueSign(p) ==
    /\ pc[p] = "iss_unix"
    /\ LET r == [loc[p].r EXCEPT !.unix = now]
           tok == IF loc[p].kind = "access"
                  THEN GenerateAccessToken(loc[p].user, r)
                  ELSE GenerateRefreshToken(loc[p].user, r)
       IN /\ known' = known \cup {tok}
          /\ probe' = Append(probe, [kind |-> loc[p].kind, uid |-> loc[p].user.id,
                                     tok |-> tok, tc |-> ParseJWT(tok, now)])
    /\ pc' = [pc EXCEPT ![p] = "idle"]
    /\ loc' = [loc EXCEPT ![p] = IdleIssueLoc]
    /\ UNCHANGED <<now, secTicks, rdb, redis, users, roles, userRoles, reqs, hist>>

InitIssue ==
    /\ now = [sec |-> StartUnix, ns |-> 0]
    /\ secTicks = 0
    /\ rdb = FALSE
    /\ redis = [u \in UserIDs |-> NoEntry]
    /\ users = <<>>
    /\ roles = <<>>
    /\ userRoles = <<>>
    /\ pc = [p \in Procs |-> "idle"]
    /\ loc = [p \in Procs |-> IdleIssueLoc]
    /\ known = {}
    /\ reqs = 0
    /\ hist = NoHist
    /\ probe = <<>>

NextIssue ==
    \/ \E p \in Procs, kind \in TokenKinds, user \in TokenUsers : IssueStart(p, kind, user)
    \/ \E p \in Procs : IssueRead(p)
    \/ \E p \in Procs : IssueSign(p)
    \/ TickNs
    \/ TickSec(1)

SpecIssue == InitIssue /\ [][NextIssue]_vars

\* C19: every token returned by IssueAccessToken, parsed at once, has kind
\* access and exp - iat = 900 s, and every token returned by
\* IssueRefreshToken kind refresh and exp - iat = 604800 s, whatever the
\* clock does during the issuance.
C19_LifetimeExact ==
    \A i \in 1..Len(probe) :
       /\ probe[i].tc.ok
       /\ probe[i].tc.Type = probe[i].kind
       /\ probe[i].tc.Exp - probe[i].tc.Iat =
             (IF probe[i].kind = "access" THEN AccessLifetime ELSE RefreshLifetime)

\* C20: any two tokens issued by the service, of either kind and for any
\* users, have distinct jti values.
C20_DistinctJti ==
    \A i, j \in 1..Len(probe) : i < j => probe[i].tc.Jti # probe[j].tc.Jti


(***************************************************************************)
(* Accounts: external login beside the user registration of UserHandler,   *)
(* on a database that the role migration has seeded and that already holds *)
(* one registered client.  Specification SpecAccounts.                     *)
(***************************************************************************)
\* the external id of the registered client, and one that belongs to nobody
AccountExternalIDs == TelegramIDs \cup {FromNat(777)}

\* who sends a request to UserHandler.CreateUser
Callers == {"anonymous", "admin"}

\* the role field of the request body
RequestedRoles == {"barber", "client", "manager"}

\* the row userService.RegisterClient left for the client with external id 12345
RegisteredClient ==
    [NoUser EXCEPT !.id = 1, !.telegramID = FromNat(12345), !.username = "old_name",
                   !.firstName = "Old", !.lastName = "Name", !.email = "old@example.com"]

\* an assertion whose auth_date lies more than the freshness window back
StaleDate == [sec |-> StartUnix - FreshnessWindow - 1, ns |-> 0]

\* UserHandler.CreateUser up to userRepo.Create in RegisterBarber / RegisterClient
CreateUserStart(p, caller, want) ==
    /\ pc[p] = "idle"
    /\ reqs < MaxReqs
    /\ reqs' = reqs + 1
    /\ LET l == [IdleLoc EXCEPT !.op = "create_user"] @@ [caller |-> caller, want |-> want]
           u == [NoUser EXCEPT !.telegramID = FromNat(777), !.username = "newcomer",
                               !.firstName = "New", !.lastName = "Comer",
                               !.email = "new@example.com",
                               !.isActive = (want = "barber")]
       IN IF want \notin {"barber", "client"}
          THEN /\ Finish(p, [l EXCEPT !.status = 400, !.kind = "InvalidRole"])
               /\ UNCHANGED users
          ELSE IF UniqueViolation(users, u)
          THEN /\ Finish(p, [l EXCEPT !.status = 500, !.kind = "Internal"])
               /\ UNCHANGED users
          ELSE /\ users' = CreateUser(users, u)
               /\ pc' = [pc EXCEPT ![p] = "cu_assign"]
               /\ loc' = [loc EXCEPT ![p] = [l EXCEPT !.user = [u EXCEPT !.id = Len(users) + 1]]]
    /\ UNCHANGED <<now, secTicks, rdb, redis, roles, userRoles, known, hist, probe>>

\* RegisterBarber / RegisterClient from GetRoleByName on, and the handler's answer
CreateUserAssign(p) ==
    /\ pc[p] = "cu_assign"
    /\ LET role == GetRoleByName(roles, loc[p].want)
           uid == loc[p].user.id
       IN IF role = NoRole
          THEN /\ Finish(p, [loc[p] EXCEPT !.status = 500, !.kind = "Internal"])
               /\ UNCHANGED userRoles
          ELSE /\ userRoles' = RepoAssignRoleToUser(userRoles, uid, role.id, uid)
               /\ Finish(p, [loc[p] EXCEPT !.status = 201, !.kind = "Created"])
    /\ UNCHANGED <<now, secTicks, rdb, redis, users, roles, known, reqs, hist, probe>>

InitAccounts ==
    /\ now = [sec |-> StartUnix, ns |-> 0]
    /\ secTicks = 0
    /\ rdb = TRUE
    /\ redis = [u \in UserIDs |-> NoEntry]
    /\ users = <<RegisteredClient>>
    /\ roles = CreateInitialRoles(<<>>).tbl
    /\ userRoles = RepoAssignRoleToUser(<<>>, 1, GetRoleByName(roles, "client").id, 1)
    /\ pc = [p \in Procs |-> "idle"]
    /\ loc = [p \in Procs |-> IdleLoc]
    /\ known = {}
    /\ reqs = 0
    /\ hist = NoHist
    /\ probe = NoProbe

NextAccounts ==
    \/ \E p \in Procs, id \in AccountExternalIDs, key \in {HandlerBotToken, ""},
          t \in {now, StaleDate} :
          TelegramAuthStart(p, Assertion(id, key, t))
    \/ \E p \in Procs : TelegramAuthUpdate(p)
    \/ \E p \in Procs : TelegramAuthCreate(p)
    \/ \E p \in Procs : TelegramAuthStore(p)
    \/ \E p \in Procs, caller \in Callers, want \in RequestedRoles :
          CreateUserStart(p, caller, want)
    \/ \E p \in Procs : CreateUserAssign(p)

SpecAccounts == InitAccounts /\ [][NextAccounts]_vars

\* the assertions a client may send in SpecAccounts
AccountAssertions ==
    {Assertion(id, key, t) : id \in AccountExternalIDs, key \in {HandlerBotToken, ""},
                             t \in {now, StaleDate}}

\* the handler's validation refuses the assertion: stale, or the hash is not the
\* HMAC of the data-check string under the handler's key
Refused(a) ==
    \/ TooOld(a, now)
    \/ HexEncodeToString(HmacSha256(HandlerBotToken, DataCheckString(a))) # a.hash

\* the requests of one kind that have been answered
Answered(op) == {p \in Procs : pc[p] = "idle" /\ loc[p].op = op}

\* C21: a request whose assertion fails validation is answered AuthInvalid (401)
\* within the same step, carries no tokens, and leaves users, roles, user_roles,
\* the refresh-token store and the set of issued tokens as they were.
C21_InvalidAssertionNoEffect ==
    [][\A p \in Procs, a \in AccountAssertions :
          (TelegramAuthStart(p, a) /\ Refused(a)) =>
              /\ pc'[p] = "idle"
              /\ loc'[p].status = 401 /\ loc'[p].kind = "AuthInvalid"
              /\ loc'[p].acc = NoTok /\ loc'[p].ref = NoTok
              /\ UNCHANGED <<users, roles, userRoles, redis, known>>]_vars

\* a refused login answered while the other worker's login has stored a token
C21_Witness ==
    \E p, q \in Procs :
        /\ p \in Answered("telegram") /\ loc[p].status = 401
        /\ q \in Answered("telegram") /\ loc[q].status = 200
        /\ \E u \in UserIDs : redis[u] # NoEntry

\* C22: a login with the external id of an existing user takes the found row,
\* sets username, first and last name from the payload and the active flag, and
\* the Update writes that row in place: id, external id, the other rows, the
\* number of rows and every role assignment stay as they were.
C22_ExistingUserUpdated ==
    [][\A p \in Procs :
          /\ \A a \in AccountAssertions :
                (TelegramAuthStart(p, a) /\ ~Refused(a)
                    /\ GetByTelegramID(users, a.id) # NoUser) =>
                    LET old == GetByTelegramID(users, a.id)
                    IN /\ pc'[p] = "tg_update"
                       /\ loc'[p].user.id = old.id
                       /\ loc'[p].user.telegramID = old.telegramID
                       /\ loc'[p].user.username = a.username
                       /\ loc'[p].user.firstName = a.first_name
                       /\ loc'[p].user.lastName = a.last_name
                       /\ loc'[p].user.isActive
          /\ TelegramAuthUpdate(p) =>
                LET u == loc[p].user
                IN /\ Len(users') = Len(users)
                   /\ users'[u.id] = u
                   /\ users'[u.id].id = users[u.id].id
                   /\ users'[u.id].telegramID = users[u.id].telegramID
                   /\ \A i \in 1..Len(users) : i # u.id => users'[i] = users[i]
                   /\ UNCHANGED <<roles, userRoles>>]_vars

\* the registered client has logged in: new names, active, same id, same role
C22_Witness ==
    /\ \E p \in Answered("telegram") : loc[p].status = 200
    /\ Len(users) = 1
    /\ users[1].id = 1 /\ users[1].telegramID = FromNat(12345)
    /\ users[1].username = "testuser" /\ users[1].firstName = "John"
    /\ users[1].lastName = "Doe" /\ users[1].isActive
    /\ users[1].email = RegisteredClient.email
    /\ HasUserRole(userRoles, roles, 1, "client")
    /\ ~HasUserRole(userRoles, roles, 1, "barber")

\* C23: a login with an external id that belongs to no user creates one row
\* tagged auth_method "telegram" and active, and when the flow returns the user
\* holds the role client, and only that one, in user_roles.
C23_NewUserIsExternalClient ==
    [][\A p \in Procs :
          /\ (TelegramAuthCreate(p) /\ users' # users) =>
                /\ Len(users') = Len(users) + 1
                /\ users'[Len(users')].authMethod = "telegram"
                /\ users'[Len(users')].isActive
          /\ (TelegramAuthStore(p) /\ loc[p].user.role = "client") =>
                /\ HasUserRole(userRoles', roles', loc[p].user.id, "client")
                /\ ~HasUserRole(userRoles', roles', loc[p].user.id, "barber")
                /\ ~HasUserRole(userRoles', roles', loc[p].user.id, "admin")]_vars

\* C24: no two rows of users share an external id, and no two share an email.
C24_UniqueExternalIdAndEmail ==
    \A i, j \in 1..Len(users) :
        i # j => /\ users[i].telegramID # users[j].telegramID
                 /\ users[i].email # users[j].email

\* two first-time logins with external id 777 ran side by side: one was answered
\* 200, the other lost the INSERT, and one row carries the id
C24_Witness ==
    /\ reqs = 2
    /\ \E p, q \in Answered("telegram") : loc[p].status = 200 /\ loc[q].status = 500
    /\ Cardinality({i \in 1..Len(users) : users[i].telegramID = FromNat(777)}) = 1

\* C27: a role assignment to barber made by the registration handler was
\* requested by an admin.
C27_BarberOnlyByAdmin ==
    [][\A p \in Procs :
          (CreateUserAssign(p) /\ loc[p].want = "barber" /\ userRoles' # userRoles) =>
              loc[p].caller = "admin"]_vars

(***************************************************************************)
(* Registration through UserService beside the deletion of roles.          *)
(* Specification SpecRegister.                                             *)
(***************************************************************************)
\* roleService.DeleteRole
RoleServiceDeleteRole(id) ==
    /\ reqs < MaxReqs
    /\ reqs' = reqs + 1
    /\ roles' = DeleteRole(roles, id)
    /\ UNCHANGED <<now, secTicks, rdb, redis, users, userRoles, pc, loc, known, hist, probe>>

NextRegister ==
    \/ \E p \in Procs, want \in {"barber", "client"} : CreateUserStart(p, "admin", want)
    \/ \E p \in Procs : CreateUserAssign(p)
    \/ \E id \in 1..Len(roles) : RoleServiceDeleteRole(id)

SpecRegister == InitAccounts /\ [][NextRegister]_vars

\* the live user records
LiveUsers(tbl) == {tbl[i].id : i \in {j \in 1..Len(tbl) : ~tbl[j].deleted}}

\* C39: RegisterBarber and RegisterClient are all-or-nothing: when the call
\* returns an error the user store holds no new record, and when it returns
\* success the new user has an active assignment of exactly the role asked for.
C39_RegisterAllOrNothing ==
    [][\A p \in Procs :
          CreateUserAssign(p) =>
             IF loc'[p].status = 201
             THEN GetUserRoles(userRoles', roles', loc[p].user.id)
                     = {GetRoleByName(roles', loc[p].want).id}
             ELSE loc[p].user.id \notin LiveUsers(users')]_vars


(***************************************************************************)
(* First logins and registrations on a database without users: external    *)
(* logins for two external ids beside direct registrations for two emails. *)
(* Specification SpecFirstLogins.                                          *)
(***************************************************************************)
NewExternalIDs == {FromNat(777), FromNat(888)}

\* the bot token handed to NewAuthService and kept in authService.botToken
ConfiguredBotToken == "test_bot_token"

LoginKeys == {ConfiguredBotToken, HandlerBotToken, AttackerKey}

InitFirstLogins ==
    /\ now = [sec |-> StartUnix, ns |-> 0]
    /\ secTicks = 0
    /\ rdb = TRUE
    /\ redis = [u \in UserIDs |-> NoEntry]
    /\ users = <<>>
    /\ roles = CreateInitialRoles(<<>>).tbl
    /\ userRoles = <<>>
    /\ pc = [p \in Procs |-> "idle"]
    /\ loc = [p \in Procs |-> IdleLoc]
    /\ known = {}
    /\ reqs = 0
    /\ hist = NoHist
    /\ probe = NoProbe

NextFirstLogins ==
    \/ \E p \in Procs, id \in NewExternalIDs, key \in LoginKeys :
          TelegramAuthStart(p, Assertion(id, key, now))
    \/ \E p \in Procs : TelegramAuthUpdate(p)
    \/ \E p \in Procs : TelegramAuthCreate(p)
    \/ \E p \in Procs : TelegramAuthStore(p)
    \/ \E p \in Procs, req \in RegisterRequests : RegisterDirectStart(p, req)
    \/ \E p \in Procs : RegisterDirectCreate(p)
    \/ \E p \in Procs : RegisterDirectAssign(p)
    \/ \E p \in Procs : RegisterDirectStore(p)

SpecFirstLogins == InitFirstLogins /\ [][NextFirstLogins]_vars

\* C34: the INSERT of a first external login succeeds when no user has its
\* external id, whatever users without an email exist; the INSERT of a direct
\* registration succeeds when no user has its email, whatever users without an
\* external id exist.
C34_UniqueOnlyWhenPresent ==
    [][\A p \in Procs :
          /\ (TelegramAuthCreate(p)
                 /\ \A i \in 1..Len(users) : users[i].telegramID # loc[p].user.telegramID) =>
                /\ Len(users') = Len(users) + 1
                /\ pc'[p] = "tg_store"
          /\ (RegisterDirectCreate(p)
                 /\ \A i \in 1..Len(users) : users[i].email # loc[p].user.email) =>
                /\ Len(users') = Len(users) + 1
                /\ pc'[p] = "rd_assign"]_vars


\* C35: the external login accepts a fresh assertion signed with the bot
\* token given to the service at construction and refuses an assertion
\* signed with any other key.
C35_ConfiguredSecretVerifies ==
    [][\A p \in Procs, id \in NewExternalIDs, key \in LoginKeys :
          TelegramAuthStart(p, Assertion(id, key, now)) =>
             ((key = ConfiguredBotToken) <=> (pc'[p] # "idle"))]_vars

(***************************************************************************)
(* Role bootstrap: Database.Migrate runs CreateInitialRoles at every       *)
(* process start, between administrative CreateRole, UpdateRole and        *)
(* DeleteRole calls.  probe holds the last call and its result.            *)
(* Specification SpecBootstrap.                                            *)
(***************************************************************************)
MaxRoleOps == 4

\* names and permission descriptors an administrator may send
AdminRoleNames == {"admin", "manager"}
CustomPermissions == "{}"

BootProbe(op, err, before) ==
    [op |-> op, err |-> err, before |-> before,
     \* the calls so far are bootstrap runs only, and how many
     fresh |-> probe.fresh /\ op = "bootstrap",
     runs |-> IF probe.fresh /\ op = "bootstrap" THEN probe.runs + 1 ELSE 0,
     \* the call before this one was a bootstrap run that returned nil
     afterOK |-> probe.op = "bootstrap" /\ ~probe.err]

\* Database.Migrate: CreateInitialRoles on the table as it is
Migrate ==
    /\ reqs < MaxRoleOps
    /\ reqs' = reqs + 1
    /\ LET res == CreateInitialRoles(roles)
       IN /\ roles' = res.tbl
          /\ probe' = BootProbe("bootstrap", res.err, roles)
    /\ UNCHANGED <<now, secTicks, rdb, redis, users, userRoles, pc, loc, known, hist>>

\* roleService.CreateRole
CreateRoleCall(name) ==
    /\ reqs < MaxRoleOps
    /\ reqs' = reqs + 1
    /\ LET res == CreateRole(roles, [NoRole EXCEPT !.name = name,
                                                   !.permissions = CustomPermissions])
       IN /\ roles' = res.tbl
          /\ probe' = BootProbe("create", res.err, roles)
    /\ UNCHANGED <<now, secTicks, rdb, redis, users, userRoles, pc, loc, known, hist>>

\* roleService.UpdateRole of a role read with GetRoleByID
UpdateRoleCall(id, name, permissions) ==
    /\ reqs < MaxRoleOps
    /\ reqs' = reqs + 1
    /\ GetRoleByID(roles, id) # NoRole
    /\ LET res == UpdateRole(roles, [GetRoleByID(roles, id) EXCEPT
                                        !.name = name, !.permissions = permissions])
       IN /\ roles' = res.tbl
          /\ probe' = BootProbe("update", res.err, roles)
    /\ UNCHANGED <<now, secTicks, rdb, redis, users, userRoles, pc, loc, known, hist>>

\* roleService.DeleteRole
DeleteRoleCall(id) ==
    /\ reqs < MaxRoleOps
    /\ reqs' = reqs + 1
    /\ roles' = DeleteRole(roles, id)
    /\ probe' = BootProbe("delete", FALSE, roles)
    /\ UNCHANGED <<now, secTicks, rdb, redis, users, userRoles, pc, loc, known, hist>>

InitBootstrap ==
    /\ now = [sec |-> StartUnix, ns |-> 0]
    /\ secTicks = 0
    /\ rdb = TRUE
    /\ redis = [u \in UserIDs |-> NoEntry]
    /\ users = <<>>
    /\ roles = <<>>
    /\ userRoles = <<>>
    /\ pc = [p \in Procs |-> "idle"]
    /\ loc = [p \in Procs |-> IdleLoc]
    /\ known = {}
    /\ reqs = 0
    /\ hist = NoHist
    /\ probe = [op |-> "none", err |-> FALSE, before |-> <<>>, fresh |-> TRUE, runs |-> 0,
                afterOK |-> FALSE]

NextBootstrap ==
    \/ Migrate
    \/ \E name \in AdminRoleNames : CreateRoleCall(name)
    \/ \E id \in 1..Len(roles) :
          \E name \in AdminRoleNames \cup {roles[id].name},
             permissions \in {CustomPermissions, roles[id].permissions} :
             UpdateRoleCall(id, name, permissions)
    \/ \E id \in 1..Len(roles) : DeleteRoleCall(id)

SpecBootstrap == InitBootstrap /\ [][NextBootstrap]_vars

\* the names of the rows of a roles table, deleted ones included
RoleNames(rtbl) == [i \in 1..Len(rtbl) |-> rtbl[i].name]

\* C28: the second of two bootstrap runs on a new database returns no error,
\* creates nothing and leaves exactly the three roles admin, barber, client, none
\* of them twice; and in any state a run that follows a run that returned nil
\* returns nil and leaves the table as it was.
C28_BootstrapTwice ==
    /\ (probe.op = "bootstrap" /\ probe.afterOK) =>
           ~probe.err /\ roles = probe.before
    /\ (probe.op = "bootstrap" /\ probe.fresh /\ probe.runs = 2) =>
           /\ ~probe.err /\ roles = probe.before
           /\ RoleNames(roles) = <<"admin", "barber", "client">>
           /\ \A i \in 1..Len(roles) : ~roles[i].deleted

C28_Witness ==
    /\ probe.op = "bootstrap" /\ probe.fresh /\ probe.runs = 2
    /\ Len(roles) = 3

\* C29: whatever CreateRole, UpdateRole and DeleteRole calls came before, a
\* bootstrap run returns no error and leaves admin, barber and client in the
\* table, each with its built-in permission descriptor.
C29_BootstrapRestores ==
    probe.op = "bootstrap" =>
        /\ ~probe.err
        /\ \A b \in 1..Len(BuiltinRoles) :
              LET role == GetRoleByName(roles, BuiltinRoles[b].name)
              IN role # NoRole /\ role.permissions = BuiltinRoles[b].permissions


(***************************************************************************)
(* roleService.HasAnyRole and HasAllRoles as functions of the tables, the  *)
(* user and the list of names.  Specification SpecHasRoles.                *)
(***************************************************************************)
MaxNames == 2

\* the names a caller may ask for; no role is called "ghost"
AskedNames == {"admin", "barber", "ghost"}

RECURSIVE NameLists(_)
NameLists(n) ==
    IF n = 0 THEN {<<>>}
    ELSE NameLists(n - 1) \cup {Append(l, x) : l \in {m \in NameLists(n - 1) : Len(m) = n - 1},
                                                 x \in AskedNames}

\* user_roles rows to choose from: active, inactive and soft-deleted ones
CandidateRows ==
    <<[userID |-> 1, roleID |-> 1, assignedBy |-> 1, isActive |-> 1, deleted |-> FALSE],
      [userID |-> 1, roleID |-> 2, assignedBy |-> 1, isActive |-> 1, deleted |-> FALSE],
      [userID |-> 2, roleID |-> 2, assignedBy |-> 1, isActive |-> 0, deleted |-> FALSE],
      [userID |-> 2, roleID |-> 1, assignedBy |-> 1, isActive |-> 1, deleted |-> TRUE]>>

AssignmentTables ==
    {SelectSeq(CandidateRows, LAMBDA r : r \in S) :
        S \in SUBSET {CandidateRows[i] : i \in 1..Len(CandidateRows)}}

\* the seeded roles table, and the same after DeleteRole(barber)
RoleTables ==
    {CreateInitialRoles(<<>>).tbl, DeleteRole(CreateInitialRoles(<<>>).tbl, 2)}

ApplyHasAnyRole(uid, roleNames) ==
    /\ probe' = [op |-> "any", uid |-> uid, names |-> roleNames,
                 res |-> HasAnyRole(userRoles, roles, uid, roleNames)]
    /\ UNCHANGED <<now, secTicks, rdb, redis, users, roles, userRoles, pc, loc, known,
                   reqs, hist>>

ApplyHasAllRoles(uid, roleNames) ==
    /\ probe' = [op |-> "all", uid |-> uid, names |-> roleNames,
                 res |-> HasAllRoles(userRoles, roles, uid, roleNames)]
    /\ UNCHANGED <<now, secTicks, rdb, redis, users, roles, userRoles, pc, loc, known,
                   reqs, hist>>

InitHasRoles ==
    /\ now = [sec |-> StartUnix, ns |-> 0]
    /\ secTicks = 0
    /\ rdb = TRUE
    /\ redis = [u \in UserIDs |-> NoEntry]
    /\ users = <<>>
    /\ roles \in RoleTables
    /\ userRoles \in AssignmentTables
    /\ pc = [p \in Procs |-> "idle"]
    /\ loc = [p \in Procs |-> IdleLoc]
    /\ known = {}
    /\ reqs = 0
    /\ hist = NoHist
    /\ probe = NoProbe

NextHasRoles ==
    \/ \E uid \in RoleUserIDs, roleNames \in NameLists(MaxNames) :
          ApplyHasAnyRole(uid, roleNames)
    \/ \E uid \in RoleUserIDs, roleNames \in NameLists(MaxNames) :
          ApplyHasAllRoles(uid, roleNames)

SpecHasRoles == InitHasRoles /\ [][NextHasRoles]_vars

\* no live row of roles carries the name
NoSuchRole(name) == GetRoleByName(roles, name) = NoRole

\* C30: HasAnyRole answers true iff HasUserRole is true for at least one name of
\* the list, HasAllRoles iff it is true for every name; on the empty list the
\* answers are false and true; a name no role carries counts as not held.
C30_AnyAllSemantics ==
    /\ probe.op = "any" =>
          /\ probe.res = (\E i \in 1..Len(probe.names) :
                             HasUserRole(userRoles, roles, probe.uid, probe.names[i]))
          /\ probe.names = <<>> => ~probe.res
          /\ (\A i \in 1..Len(probe.names) : NoSuchRole(probe.names[i])) => ~probe.res
    /\ probe.op = "all" =>
          /\ probe.res = (\A i \in 1..Len(probe.names) :
                             HasUserRole(userRoles, roles, probe.uid, probe.names[i]))
          /\ probe.names = <<>> => probe.res
          /\ (\E i \in 1..Len(probe.names) : NoSuchRole(probe.names[i])) => ~probe.res

\* the second name of the list decides: the user holds it and not the first, which
\* names a deleted role
C30_Witness ==
    /\ probe.op = "any" /\ probe.res
    /\ probe.names = <<"barber", "admin">>
    /\ NoSuchRole("barber")
    /\ HasUserRole(userRoles, roles, probe.uid, "admin")

====
